---- MODULE Spec2Model ----
(***************************************************************************)
(* A model of the login manager: the session manager                      *)
(* (session_manager_impl.cc), the device policy service                   *)
(* (device_policy_service.cc), the owner key (policy_key.cc) and the child *)
(* supervisor (session_manager_service.cc).                                *)
(*                                                                         *)
(* Strings are sequences of one-character strings, so that case folding,   *)
(* the e-mail check, the cookie comparison and the argument tokeniser are  *)
(* computed and not assumed.  Keys are sequences of bytes.                 *)
(***************************************************************************)
EXTENDS Integers, Sequences, FiniteSets, TLC

VARIABLES
  session_started_,   \* SessionManagerImpl::session_started_
  session_stopping_,  \* SessionManagerImpl::session_stopping_
  screen_locked_,     \* SessionManagerImpl::screen_locked_ (SessionManagerService::screen_locked_)
  user_sessions_,     \* SessionManagerImpl::user_sessions_: normalized name -> UserSession
  policy,             \* the record held by the device policy store (store()->Get())
  key_,               \* PolicyKey::key_
  have_checked_disk_, \* PolicyKey::have_checked_disk_
  mitigating_,        \* OwnerKeyLossMitigator: mitigation in progress
  nss_keys,           \* per user: the public keys whose private half the user's slot holds
  keygen_jobs,        \* key generation jobs started, in order: [user, via]
  logged_in_file,     \* whether kLoggedInFlag exists
  child_pids_,        \* SessionManagerService::child_pids_: job -> pid, -1 when not running
  job_args,           \* the argument vector each child job will be run with
  next_pid,           \* the pid the next fork() returns
  children,           \* the pids of the forked children that have not exited
  shutting_down_,     \* SessionManagerService::shutting_down_
  exit_on_child_done_, \* SessionManagerService::exit_on_child_done_
  file_exists,        \* file_checker_->exists()
  daemon,             \* where the daemon is between construction and exit
  reset_file,         \* the content of kResetFile, <<>> while it does not exist
  restart_requested,  \* whether the power manager was asked to restart
  have_replaced_,     \* PolicyKey::have_replaced_
  policy_file,        \* the policy file on disk: [exists, content]
  serial_recovery_flag_file, \* whether kSerialRecoveryFlagFile exists
  settings_,          \* DevicePolicyService::settings_: the decoded settings cache
  persist_pending,    \* whether a policy Persist task is queued on the main loop
  user_policy_,       \* per user: the user policy service of the user's session
  outstanding_liveness_ping_, \* LivenessCheckerImpl::outstanding_liveness_ping_
  liveness_check_,    \* whether liveness_check_ holds a callback (not cancelled)
  enable_aborting_,   \* LivenessCheckerImpl::enable_aborting_
  liveness_requests,  \* how many LivenessRequested signals were emitted
  ping_unconfirmed,   \* a ping was sent and none confirmed since (observation only)
  posted_check,       \* the message loop holds a posted check whose callback is valid
  sig_disposition,    \* per signal: "handler" or "SIG_DFL"
  g_shutdown_pipe_write_fd, \* -1 until Run() creates the shutdown pipe
  shutdown_pipe,      \* the signal numbers written to the shutdown pipe
  kill_watch,         \* whether the HandleKill watch is attached to the main loop
  idle_shutdowns,     \* how many ServiceShutdown idle sources StopSession queued
  stop_requests,      \* how many StopSession requests were served
  shutdown_runs,      \* how many times Shutdown() has run
  key_file,           \* the owner key file on disk: [exists, content]
  key_persist_pending, \* whether a key Persist task is queued on the main loop
  last                \* what the latest request did (observation only)

vars == <<session_started_, session_stopping_, screen_locked_, user_sessions_,
          policy, key_, have_checked_disk_, mitigating_, nss_keys, keygen_jobs,
          logged_in_file, child_pids_, job_args, next_pid, children,
          shutting_down_, exit_on_child_done_, file_exists, daemon,
          reset_file, restart_requested, have_replaced_, policy_file,
          serial_recovery_flag_file, settings_, persist_pending,
          user_policy_, outstanding_liveness_ping_, liveness_check_,
          enable_aborting_, liveness_requests, ping_unconfirmed, posted_check,
          sig_disposition, g_shutdown_pipe_write_fd, shutdown_pipe, kill_watch,
          idle_shutdowns, stop_requests, shutdown_runs, key_file,
          key_persist_pending, last>>

implVars == <<session_started_, session_stopping_, screen_locked_, user_sessions_>>
policyVars == <<policy, key_, have_checked_disk_, mitigating_, nss_keys, keygen_jobs>>
childVars == <<child_pids_, job_args, next_pid, children>>
svcVars == <<shutting_down_, exit_on_child_done_, file_exists>>
wipeVars == <<reset_file, restart_requested>>
storeVars == <<have_replaced_, policy_file, serial_recovery_flag_file,
               settings_, persist_pending>>
livenessVars == <<outstanding_liveness_ping_, liveness_check_, enable_aborting_,
                  liveness_requests, ping_unconfirmed, posted_check>>
signalVars == <<sig_disposition, g_shutdown_pipe_write_fd, shutdown_pipe,
                kill_watch, idle_shutdowns, stop_requests, shutdown_runs>>
extVars == <<wipeVars, storeVars, user_policy_, livenessVars, signalVars,
             key_file, key_persist_pending>>

(***************************************************************************)
(* Bounds of the model.                                                    *)
(***************************************************************************)
MaxPid == 4
MaxKeygenJobs == 2

(***************************************************************************)
(* Strings.                                                                *)
(***************************************************************************)
UpperChars == <<"A","B","C","D","E","F","G","H","I","J","K","L","M",
                "N","O","P","Q","R","S","T","U","V","W","X","Y","Z">>
LowerChars == <<"a","b","c","d","e","f","g","h","i","j","k","l","m",
                "n","o","p","q","r","s","t","u","v","w","x","y","z">>
Digits == {"0","1","2","3","4","5","6","7","8","9"}

ToLowerASCII(c) ==
  IF \E i \in 1..Len(UpperChars) : UpperChars[i] = c
  THEN LowerChars[CHOOSE i \in 1..Len(UpperChars) : UpperChars[i] = c]
  ELSE c

StringToLowerASCII(s) == [i \in 1..Len(s) |-> ToLowerASCII(s[i])]

kMaxGCharBufferSize == 200

\* snprintf into a buffer of kMaxGCharBufferSize + 1 bytes.  No input of the
\* model is longer than the buffer.
GCharToString(str) ==
  SubSeq(str, 1, IF Len(str) < kMaxGCharBufferSize THEN Len(str) ELSE kMaxGCharBufferSize)

kEmailSeparator == "@"
kLegalCharacters ==
  {LowerChars[i] : i \in 1..Len(LowerChars)} \cup
  {UpperChars[i] : i \in 1..Len(UpperChars)} \cup
  {".", "@", "-", "+", "_"} \cup Digits

kGuestUserName == <<"$","g","u","e","s","t">>
kDemoUser == <<"d","e","m","o","u","s","e","r","@">>

\* std::string::find(c, from): the first index >= from holding c, 0 for npos.
Find(s, c, from) ==
  IF \E i \in from..Len(s) : s[i] = c
  THEN CHOOSE i \in from..Len(s) : s[i] = c /\ \A j \in from..(i - 1) : s[j] # c
  ELSE 0

ValidateEmail(email_address) ==
  IF \E i \in 1..Len(email_address) : email_address[i] \notin kLegalCharacters
  THEN FALSE
  ELSE LET at == Find(email_address, kEmailSeparator, 1)
       IN IF at = 0 THEN FALSE
          ELSE IF Find(email_address, kEmailSeparator, at + 1) # 0 THEN FALSE
          ELSE TRUE

NormalizeEmail_NoLower(email_address) == GCharToString(email_address)

\* StartSession: email_string(StringToLowerASCII(GCharToString(email_address)))
NormalizeEmail(email_address) == StringToLowerASCII(GCharToString(email_address))

IsIncognitoName(email_string) ==
  email_string = kGuestUserName \/ email_string = kDemoUser

(***************************************************************************)
(* The inputs of the model.                                                *)
(***************************************************************************)
Alice == <<"a","@","b">>
AliceUpper == <<"A","@","b">>
Bob == <<"c","@","d">>
GuestUpper == <<"$","G","u","e","s","t">>
NoAt == <<"a","b">>
TwoAt == <<"a","@","b","@","c">>
WithSpace == <<"a"," ","@","b">>

EmailInputs == {Alice, AliceUpper, Bob, kGuestUserName, GuestUpper, kDemoUser,
                NoAt, TwoAt, WithSpace, <<>>}

\* The names a session can be recorded under.
Users == {Alice, Bob, kGuestUserName, kDemoUser}

K1 == <<1, 1>>
NoKey == <<>>

(***************************************************************************)
(* The owner key (policy_key.cc).                                          *)
(***************************************************************************)
IsPopulated == key_ # NoKey

HaveCheckedDisk == have_checked_disk_

\* memcmp over key_.size() bytes.  Every key of the model has the same
\* length, so the comparison never reads past the shorter buffer.
VEquals(key_der) ==
  ((key_ = NoKey) = (key_der = NoKey)) /\
  SubSeq(key_der, 1, Len(key_)) = SubSeq(key_, 1, Len(key_))

Equals(key_der) == VEquals(key_der)

(***************************************************************************)
(* The device policy service (device_policy_service.cc).  The policy       *)
(* record is the PolicyFetchResponse with its PolicyData and its           *)
(* ChromeDeviceSettingsProto decoded into fields.                          *)
(***************************************************************************)
EmptyPolicy ==
  [has_policy_data |-> FALSE,
   policy_type_ok |-> FALSE,     \* policy_type == kDevicePolicyType
   request_token |-> FALSE,      \* has_request_token
   username |-> <<>>,            \* <<>>: no username
   whitelist |-> <<>>,
   allow_new_users |-> "unset",
   other_settings |-> <<>>,      \* the other fields of the settings
   new_public_key |-> NoKey,
   signed_with |-> NoKey,        \* the key whose private half signed policy_data
   serial_missing |-> FALSE,     \* valid_serial_number_missing
   new_key_signed_with |-> NoKey] \* the key that signed new_public_key

OwnedPolicy(owner, key, token) ==
  [has_policy_data |-> TRUE,
   policy_type_ok |-> TRUE,
   request_token |-> token,
   username |-> owner,
   whitelist |-> <<owner>>,
   allow_new_users |-> "true",
   other_settings |-> <<>>,
   new_public_key |-> key,
   signed_with |-> key,
   serial_missing |-> FALSE,
   new_key_signed_with |-> NoKey]

KeyMissing == HaveCheckedDisk /\ ~IsPopulated

Mitigating == mitigating_

\* nss_->GetPrivateKeyForUser(key, slot): the private half of key, if the
\* user's slot holds it.  NoKey stands for the NULL result.
GetOwnerKeyForGivenUser(key, user) ==
  IF key # NoKey /\ key \in nss_keys[user] THEN key ELSE NoKey

GivenUserIsOwner(pol, current_user) ==
  IF ~pol.has_policy_data THEN FALSE
  ELSE ~pol.request_token /\ pol.username # <<>> /\ pol.username = current_user

\* PolicyKey::Equals for the key the store holds when it is asked.
KeyEquals(key, key_der) ==
  ((key = NoKey) = (key_der = NoKey)) /\
  SubSeq(key_der, 1, Len(key)) = SubSeq(key, 1, Len(key))

StoreOwnerPropertiesWith_AlwaysWrites(key, pol, current_user, signing_key, sign_ok) ==
  LET typed == pol.has_policy_data /\ pol.policy_type_ok
      whitelist == IF typed THEN pol.whitelist ELSE <<>>
      allow == IF typed THEN pol.allow_new_users ELSE "unset"
      other == IF typed THEN pol.other_settings ELSE <<>>
      on_list == \E i \in 1..Len(whitelist) : whitelist[i] = current_user
      username == IF pol.has_policy_data THEN pol.username ELSE <<>>
  IN IF ~sign_ok THEN [ok |-> FALSE, wrote |-> FALSE, policy |-> pol]
     ELSE [ok |-> TRUE, wrote |-> TRUE,
           policy |->
             [has_policy_data |-> TRUE,
              policy_type_ok |-> TRUE,
              request_token |-> (pol.has_policy_data /\ pol.request_token),
              username |-> current_user,
              whitelist |-> IF on_list THEN whitelist
                            ELSE Append(whitelist, current_user),
              allow_new_users |-> IF ~on_list /\ allow = "unset" THEN "true"
                                  ELSE allow,
              other_settings |-> other,
              new_public_key |-> key,
              signed_with |-> signing_key,
              serial_missing |-> (pol.has_policy_data /\ pol.serial_missing),
              new_key_signed_with |-> pol.new_key_signed_with]]

\* key: key()->public_key_der() when StoreOwnerProperties runs.
\* Returns [ok, policy]: the record handed to store()->Set, or the record
\* as it was when nothing is written.  sign_ok: whether nss_->Sign succeeds.
StoreOwnerPropertiesWith(key, pol, current_user, signing_key, sign_ok) ==
  LET typed == pol.has_policy_data /\ pol.policy_type_ok
      whitelist == IF typed THEN pol.whitelist ELSE <<>>
      allow == IF typed THEN pol.allow_new_users ELSE "unset"
      other == IF typed THEN pol.other_settings ELSE <<>>
      on_list == \E i \in 1..Len(whitelist) : whitelist[i] = current_user
      username == IF pol.has_policy_data THEN pol.username ELSE <<>>
  IN IF username # <<>> /\ username = current_user /\ on_list /\
        KeyEquals(key, pol.new_public_key)
     THEN [ok |-> TRUE, wrote |-> FALSE, policy |-> pol]
     ELSE IF ~sign_ok THEN [ok |-> FALSE, wrote |-> FALSE, policy |-> pol]
     ELSE [ok |-> TRUE, wrote |-> TRUE,
           policy |->
             [has_policy_data |-> TRUE,
              policy_type_ok |-> TRUE,
              request_token |-> (pol.has_policy_data /\ pol.request_token),
              username |-> current_user,
              whitelist |-> IF on_list THEN whitelist
                            ELSE Append(whitelist, current_user),
              allow_new_users |-> IF ~on_list /\ allow = "unset" THEN "true"
                                  ELSE allow,
              other_settings |-> other,
              new_public_key |-> key,
              signed_with |-> signing_key,
              serial_missing |-> (pol.has_policy_data /\ pol.serial_missing),
              new_key_signed_with |-> pol.new_key_signed_with]]

StoreOwnerProperties(pol, current_user, signing_key, sign_ok) ==
  StoreOwnerPropertiesWith(key_, pol, current_user, signing_key, sign_ok)

\* OwnerKeyLossMitigator::Mitigate: sets the in-progress flag and has the
\* key generator started for the user; ok iff the fork succeeded.
Mitigate(current_user, fork_ok) ==
  [ok |-> fork_ok,
   mitigating |-> TRUE,
   jobs |-> IF fork_ok THEN <<[user |-> current_user, via |-> "mitigate"]>>
            ELSE <<>>]

CheckAndHandleOwnerLogin_MitigatesAnyOwner(current_user, sign_ok, fork_ok) ==
  LET signing_key == GetOwnerKeyForGivenUser(key_, current_user)
      stored == IF signing_key # NoKey
                THEN StoreOwnerProperties(policy, current_user, signing_key, sign_ok)
                ELSE [ok |-> TRUE, wrote |-> FALSE, policy |-> policy]
      is_owner == GivenUserIsOwner(stored.policy, current_user)
      mit == Mitigate(current_user, fork_ok)
  IN IF ~stored.ok
     THEN [ok |-> FALSE, is_owner |-> FALSE, policy |-> stored.policy,
           mitigating |-> mitigating_, jobs |-> <<>>,
           reported |-> FALSE, mitigate_calls |-> 0, wrote |-> stored.wrote]
     ELSE IF is_owner
     THEN [ok |-> mit.ok, is_owner |-> is_owner, policy |-> stored.policy,
           mitigating |-> mit.mitigating, jobs |-> mit.jobs,
           reported |-> TRUE, mitigate_calls |-> 1, wrote |-> stored.wrote]
     ELSE [ok |-> TRUE, is_owner |-> is_owner, policy |-> stored.policy,
           mitigating |-> mitigating_, jobs |-> <<>>,
           reported |-> TRUE, mitigate_calls |-> 0, wrote |-> stored.wrote]

\* Returns [ok, is_owner, policy, mitigating, jobs, reported,
\* mitigate_calls]: the policy record and the mitigation flag after the
\* call, the key generation jobs it started, whether *is_owner was assigned
\* (is_owner is FALSE, the caller's initial value, when it was not) and how
\* often Mitigate was called.
CheckAndHandleOwnerLogin(current_user, sign_ok, fork_ok) ==
  LET signing_key == GetOwnerKeyForGivenUser(key_, current_user)
      stored == IF signing_key # NoKey
                THEN StoreOwnerProperties(policy, current_user, signing_key, sign_ok)
                ELSE [ok |-> TRUE, wrote |-> FALSE, policy |-> policy]
      is_owner == GivenUserIsOwner(stored.policy, current_user)
      mit == Mitigate(current_user, fork_ok)
  IN IF ~stored.ok
     THEN [ok |-> FALSE, is_owner |-> FALSE, policy |-> stored.policy,
           mitigating |-> mitigating_, jobs |-> <<>>,
           reported |-> FALSE, mitigate_calls |-> 0, wrote |-> stored.wrote]
     ELSE IF is_owner /\ signing_key = NoKey
     THEN [ok |-> mit.ok, is_owner |-> is_owner, policy |-> stored.policy,
           mitigating |-> mit.mitigating, jobs |-> mit.jobs,
           reported |-> TRUE, mitigate_calls |-> 1, wrote |-> stored.wrote]
     ELSE [ok |-> TRUE, is_owner |-> is_owner, policy |-> stored.policy,
           mitigating |-> mitigating_, jobs |-> <<>>,
           reported |-> TRUE, mitigate_calls |-> 0, wrote |-> stored.wrote]

(***************************************************************************)
(* The owner key operations a Store uses (policy_key.cc).  A signature is  *)
(* modelled by the key whose private half made it: it verifies under that  *)
(* key only.  The operations are functions of the key and of the           *)
(* has-replaced flag and return the values they leave.                     *)
(***************************************************************************)
K2 == <<2, 2>>

\* A signature no key made (a signature with a bit flipped).
BadSig == <<0, 0>>

\* PolicyKey::Verify: the signature is checked against key.
Verify(key, signature) == key # NoKey /\ signature = key

PopulateFromBuffer_Unchecked(key, replaced, checked, public_key_der) ==
  IF key # NoKey THEN [ok |-> FALSE, key |-> key, replaced |-> replaced]
  ELSE [ok |-> TRUE, key |-> public_key_der, replaced |-> replaced]

PopulateFromBuffer(key, replaced, checked, public_key_der) ==
  IF ~checked THEN [ok |-> FALSE, key |-> key, replaced |-> replaced]
  ELSE IF key # NoKey THEN [ok |-> FALSE, key |-> key, replaced |-> replaced]
  ELSE [ok |-> TRUE, key |-> public_key_der, replaced |-> replaced]

Rotate_NoVerify(key, replaced, public_key_der, signature) ==
  IF key = NoKey THEN [ok |-> FALSE, key |-> key, replaced |-> replaced]
  ELSE [ok |-> TRUE, key |-> public_key_der, replaced |-> TRUE]

Rotate(key, replaced, public_key_der, signature) ==
  IF key = NoKey THEN [ok |-> FALSE, key |-> key, replaced |-> replaced]
  ELSE IF Verify(key, signature)
  THEN [ok |-> TRUE, key |-> public_key_der, replaced |-> TRUE]
  ELSE [ok |-> FALSE, key |-> key, replaced |-> replaced]

\* Called with the disk checked and a key loaded (the CHECKs); it does not
\* ask whether mitigation is in progress.
ClobberCompromisedKey(key, replaced, public_key_der) ==
  [ok |-> TRUE, key |-> public_key_der, replaced |-> TRUE]

\* The owner key file: absent, or holding the bytes written to it.
NoKeyFile == [exists |-> FALSE, content |-> << >>]

KeyFileOf(bytes) == [exists |-> TRUE, content |-> bytes]

(***************************************************************************)
(* Envelopes on the wire.  A blob is the list of the fields of a           *)
(* PolicyFetchResponse in field order; a blob that is cut short does not   *)
(* parse.                                                                  *)
(***************************************************************************)
FieldNames ==
  <<"has_policy_data", "policy_type_ok", "request_token", "username",
    "whitelist", "allow_new_users", "other_settings", "new_public_key",
    "signed_with", "serial_missing", "new_key_signed_with">>

FieldNameSet == {FieldNames[i] : i \in 1..Len(FieldNames)}

SerializeToString(rec) ==
  [i \in 1..Len(FieldNames) |-> <<FieldNames[i], rec[FieldNames[i]]>>]

ParseFromArray_NoSerial(blob) ==
  IF Len(blob) # Len(FieldNames) \/
     \E i \in 1..Len(blob) : blob[i][1] # FieldNames[i]
  THEN [ok |-> FALSE, policy |-> EmptyPolicy]
  ELSE [ok |-> TRUE,
        policy |-> [f \in FieldNameSet |->
                      IF f = "serial_missing" THEN FALSE
                      ELSE blob[CHOOSE i \in 1..Len(FieldNames) : FieldNames[i] = f][2]]]

ParseFromArray(blob) ==
  IF Len(blob) # Len(FieldNames) \/
     \E i \in 1..Len(blob) : blob[i][1] # FieldNames[i]
  THEN [ok |-> FALSE, policy |-> EmptyPolicy]
  ELSE [ok |-> TRUE,
        policy |-> [f \in FieldNameSet |->
                      blob[CHOOSE i \in 1..Len(FieldNames) : FieldNames[i] = f][2]]]

\* An envelope from the management server or from the owner: the policy
\* data (with or without an enrollment token and the serial-number-missing
\* bit) signed with signed_with, carrying new_public_key (NoKey: none)
\* signed with new_key_signed_with.
Envelope(token, serial_missing, signed_with, new_public_key, new_key_signed_with) ==
  [has_policy_data |-> TRUE,
   policy_type_ok |-> TRUE,
   request_token |-> token,
   username |-> IF token THEN <<>> ELSE Alice,
   whitelist |-> IF token THEN <<>> ELSE <<Alice>>,
   allow_new_users |-> "true",
   other_settings |-> <<>>,
   new_public_key |-> new_public_key,
   signed_with |-> signed_with,
   serial_missing |-> serial_missing,
   new_key_signed_with |-> new_key_signed_with]

EnvelopeInputs ==
  {Envelope(FALSE, FALSE, K1, NoKey, NoKey),
   Envelope(TRUE, TRUE, K1, NoKey, NoKey),
   Envelope(FALSE, FALSE, BadSig, NoKey, NoKey),
   Envelope(FALSE, FALSE, K2, K2, K1),
   Envelope(FALSE, FALSE, K1, K2, K1),
   Envelope(FALSE, FALSE, K2, K2, NoKey),
   Envelope(FALSE, FALSE, BadSig, K2, NoKey)}

BlobInputs ==
  {SerializeToString(E) : E \in EnvelopeInputs} \cup
  {SubSeq(SerializeToString(Envelope(FALSE, FALSE, K1, NoKey, NoKey)), 1, 3)}

(***************************************************************************)
(* The policy service.                                                     *)
(***************************************************************************)
KEY_ROTATE == "KEY_ROTATE"
KEY_INSTALL_NEW == "KEY_INSTALL_NEW"
KEY_CLOBBER == "KEY_CLOBBER"

\* A policy service: its key (key, replaced, checked: the fields of its
\* PolicyKey) and the record its store holds.
DeviceService ==
  [key |-> key_, replaced |-> have_replaced_, checked |-> have_checked_disk_,
   policy |-> policy]

StoreFailure(svc, error, key, replaced) ==
  [ok |-> FALSE, error |-> error, key |-> key, replaced |-> replaced,
   policy |-> svc.policy, persist_scheduled |-> FALSE,
   completion |-> <<"failure", error>>]

\* Step 2 of Store: what happens to the key when the envelope carries a new
\* public key.
StoreInstallKey(svc, env, flags) ==
  IF env.new_public_key = NoKey
  THEN [ok |-> TRUE, key |-> svc.key, replaced |-> svc.replaced, how |-> "none"]
  ELSE IF KEY_CLOBBER \in flags /\ svc.key # NoKey
  THEN ClobberCompromisedKey(svc.key, svc.replaced, env.new_public_key)
         @@ [how |-> "clobber"]
  ELSE IF svc.key = NoKey /\ KEY_INSTALL_NEW \in flags
  THEN IF Verify(env.new_public_key, env.signed_with)
       THEN PopulateFromBuffer(svc.key, svc.replaced, svc.checked,
                               env.new_public_key)
              @@ [how |-> "install"]
       ELSE [ok |-> FALSE, key |-> svc.key, replaced |-> svc.replaced,
             how |-> "install"]
  ELSE IF svc.key # NoKey /\ KEY_ROTATE \in flags
  THEN Rotate(svc.key, svc.replaced, env.new_public_key, env.new_key_signed_with)
         @@ [how |-> "rotate"]
  ELSE [ok |-> FALSE, key |-> svc.key, replaced |-> svc.replaced, how |-> "none"]

\* PolicyService::Store as a function of the service: the key, the
\* has-replaced flag and the policy record it leaves, whether it queued a
\* Persist, and what it handed to the completion.
PolicyServiceStore(svc, policy_blob, flags) ==
  LET parsed == ParseFromArray(policy_blob)
      env == parsed.policy
      installed == StoreInstallKey(svc, env, flags)
  IN IF ~parsed.ok
     THEN StoreFailure(svc, "Decode", svc.key, svc.replaced) @@ [how |-> "none"]
     ELSE IF ~installed.ok
     THEN StoreFailure(svc, "VerifySignature", installed.key, installed.replaced)
            @@ [how |-> installed.how]
     ELSE IF ~Verify(installed.key, env.signed_with)
     THEN StoreFailure(svc, "VerifySignature", installed.key, installed.replaced)
            @@ [how |-> installed.how]
     ELSE [ok |-> TRUE, error |-> "none", key |-> installed.key,
           replaced |-> installed.replaced, policy |-> env,
           persist_scheduled |-> TRUE, completion |-> <<"queued">>,
           how |-> installed.how]

(***************************************************************************)
(* The device policy service: the settings cache and the serial recovery   *)
(* flag file.                                                              *)
(***************************************************************************)
NoSettings == [set |-> FALSE, whitelist |-> <<>>, allow_new_users |-> "unset"]

\* GetSettings(): the cache is filled from the stored policy on first use.
GetSettings ==
  IF settings_.set THEN settings_
  ELSE [set |-> TRUE,
        whitelist |-> IF policy.has_policy_data THEN policy.whitelist ELSE <<>>,
        allow_new_users |-> IF policy.has_policy_data
                            THEN policy.allow_new_users ELSE "unset"]

\* The policy file a Persist of the record pol leaves; an empty record
\* serializes to no bytes.
NoFile == [exists |-> FALSE, content |-> EmptyPolicy]

FileOf(pol) == [exists |-> TRUE, content |-> pol]

FileSize(file) == IF file.exists /\ file.content # EmptyPolicy THEN 1 ELSE 0

\* UpdateSerialNumberRecoveryFlagFile(): whether the flag file exists
\* afterwards, for the stored record pol and the policy file as it is now.
UpdateSerialNumberRecoveryFlagFile(pol, file) ==
  \/ ~file.exists
  \/ FileSize(file) = 0
  \/ pol.has_policy_data /\ pol.request_token /\ pol.serial_missing

DevicePolicyServiceStore_AlwaysFlush(policy_blob, flags) ==
  LET result == PolicyServiceStore(DeviceService, policy_blob, flags)
  IN result @@
     [flag_file |-> UpdateSerialNumberRecoveryFlagFile(result.policy, policy_file),
      settings |-> NoSettings]

\* DevicePolicyService::Store.
DevicePolicyServiceStore(policy_blob, flags) ==
  LET result == PolicyServiceStore(DeviceService, policy_blob, flags)
  IN result @@
     [flag_file |-> IF result.ok
                    THEN UpdateSerialNumberRecoveryFlagFile(result.policy, policy_file)
                    ELSE serial_recovery_flag_file,
      settings |-> IF result.ok THEN NoSettings ELSE settings_]

\* The user policy service a session is created with: no key, no policy.
NoUserPolicy ==
  [key |-> NoKey, replaced |-> FALSE, checked |-> TRUE, policy |-> EmptyPolicy,
   pending |-> FALSE, file |-> NoFile]

(***************************************************************************)
(* The session manager (session_manager_impl.cc).                          *)
(***************************************************************************)
kStarted == "started"
kStopping == "stopping"
kStopped == "stopped"

\* A NULL UserSession pointer in user_sessions_.
NullSession == [username |-> <<>>, is_incognito |-> FALSE, null |-> TRUE]

UserSession(username, is_incognito) ==
  [username |-> username, is_incognito |-> is_incognito, null |-> FALSE]

RetrieveSessionState_NoStopping ==
  IF ~session_started_ THEN kStopped ELSE kStarted

RetrieveSessionState ==
  IF ~session_started_ THEN kStopped
  ELSE IF session_stopping_ THEN kStopping ELSE kStarted

AllSessionsAreIncognito_Never == FALSE

AllSessionsAreIncognito_Some ==
  \E k \in DOMAIN user_sessions_ :
    ~user_sessions_[k].null /\ user_sessions_[k].is_incognito

AllSessionsAreIncognito ==
  LET incognito_count ==
        Cardinality({k \in DOMAIN user_sessions_ :
                       ~user_sessions_[k].null /\ user_sessions_[k].is_incognito})
  IN incognito_count = Cardinality(DOMAIN user_sessions_)

\* policy_ok: user_policy_factory_->Create succeeds; slot_ok: OpenUserDB does.
CreateUserSession(username, is_incognito, policy_ok, slot_ok) ==
  IF ~policy_ok THEN [ok |-> FALSE, error |-> "PolicyInitFail"]
  ELSE IF ~slot_ok THEN [ok |-> FALSE, error |-> "NoUserNssdb"]
  ELSE [ok |-> TRUE, error |-> "none",
        session |-> UserSession(username, is_incognito)]

\* What the environment decides during one StartSession: the step that
\* fails, if any.  A call returns at the first failure it meets, so one
\* failing step per call yields every outcome.
FailurePoints == {"none", "policy", "slot", "sign", "fork", "emit"}

StartEnv ==
  {[policy_ok |-> f # "policy", slot_ok |-> f # "slot", sign_ok |-> f # "sign",
    fork_ok |-> f # "fork", emit_ok |-> f # "emit"] : f \in FailurePoints}

IsFirstRealUser_AnyUser(is_incognito) == AllSessionsAreIncognito

IsFirstRealUser(is_incognito) == AllSessionsAreIncognito /\ ~is_incognito

\* The outcome of a StartSession that returns before the owner check.
EarlyFailure(email_string, error) ==
  [done |-> FALSE, error |-> error, email_string |-> email_string,
   sessions |-> user_sessions_, started |-> session_started_,
   policy |-> policy, mitigating |-> mitigating_, jobs |-> <<>>,
   logged_in |-> logged_in_file, wrote_marker |-> FALSE, signals |-> <<>>,
   owner_check |-> FALSE, owner_lacks_key |-> FALSE,
   first_real_user |-> FALSE, take_ownership |-> FALSE]

\* StartSession as a function of the state and of the environment e: the
\* values of the fields it may write, the key generation jobs it started
\* and the signals it emitted.
StartSessionCall(email_address, e) ==
  LET email_string == NormalizeEmail(email_address)
      is_incognito == IsIncognitoName(email_string)
      user_session == CreateUserSession(email_string, is_incognito,
                                        e.policy_ok, e.slot_ok)
      owner == CheckAndHandleOwnerLogin(email_string, e.sign_ok, e.fork_ok)
      is_first_real_user == IsFirstRealUser(is_incognito)
      \* KeyMissing() && !Mitigating() && is_first_real_user, read after
      \* the owner check has run
      take_ownership == KeyMissing /\ ~owner.mitigating /\ is_first_real_user
      lacks_key == owner.is_owner /\
                   GetOwnerKeyForGivenUser(key_, email_string) = NoKey
  IN IF ~is_incognito /\ ~ValidateEmail(email_string)
     THEN EarlyFailure(email_string, "InvalidEmail")
     ELSE IF email_string \in DOMAIN user_sessions_
     THEN EarlyFailure(email_string, "SessionExists")
     ELSE IF ~user_session.ok
     THEN EarlyFailure(email_string, user_session.error)
     ELSE IF ~owner.ok
     THEN [EarlyFailure(email_string, "IllegalPubKey") EXCEPT
             !.policy = owner.policy, !.mitigating = owner.mitigating,
             !.jobs = owner.jobs, !.owner_check = TRUE,
             !.owner_lacks_key = lacks_key]
     ELSE IF ~e.emit_ok
     THEN [EarlyFailure(email_string, "EmitFailed") EXCEPT
             !.policy = owner.policy, !.mitigating = owner.mitigating,
             !.jobs = owner.jobs, !.owner_check = TRUE,
             !.owner_lacks_key = lacks_key,
             !.first_real_user = is_first_real_user]
     ELSE [done |-> TRUE, error |-> "none", email_string |-> email_string,
           sessions |-> [k \in DOMAIN user_sessions_ \cup {email_string} |->
                           IF k = email_string THEN user_session.session
                           ELSE user_sessions_[k]],
           started |-> TRUE,
           policy |-> owner.policy, mitigating |-> owner.mitigating,
           jobs |-> IF take_ownership
                    THEN Append(owner.jobs, [user |-> email_string,
                                             via |-> "take_ownership"])
                    ELSE owner.jobs,
           logged_in |-> TRUE, wrote_marker |-> TRUE,
           signals |-> <<"SessionStateChanged", kStarted>>,
           owner_check |-> TRUE, owner_lacks_key |-> lacks_key,
           first_real_user |-> is_first_real_user,
           take_ownership |-> take_ownership]

kCookieEntropyBytes == 16

\* The process cookie: kCookieEntropyBytes random characters, drawn once when
\* the session manager is constructed.  One representative value.
cookie_ == [i \in 1..kCookieEntropyBytes |-> 1 + (i % 3)]

IsValidCookie(cookie) ==
  LET len == IF Len(cookie) < Len(cookie_) THEN Len(cookie) ELSE Len(cookie_)
  IN SubSeq(cookie, 1, len) = SubSeq(cookie_, 1, len)

CookieInputs ==
  {cookie_,
   <<>>,
   SubSeq(cookie_, 1, 5),
   [cookie_ EXCEPT ![1] = 9],
   [cookie_ EXCEPT ![kCookieEntropyBytes] = 9],
   Append(cookie_, 9)}

\* g_shell_parse_argv: blanks separate words, single quotes group; an empty
\* command line and an unmatched quote are errors.
RECURSIVE ShellParse(_, _, _, _, _)
ShellParse(s, i, cur, state, acc) ==
  IF i > Len(s)
  THEN IF state = "quote" THEN [ok |-> FALSE, argv |-> <<>>]
       ELSE LET out == IF state = "word" THEN Append(acc, cur) ELSE acc
            IN [ok |-> out # <<>>, argv |-> out]
  ELSE IF state = "quote"
  THEN IF s[i] = "'" THEN ShellParse(s, i + 1, cur, "word", acc)
       ELSE ShellParse(s, i + 1, Append(cur, s[i]), "quote", acc)
  ELSE IF s[i] = " "
  THEN ShellParse(s, i + 1, <<>>, "blank",
                  IF state = "word" THEN Append(acc, cur) ELSE acc)
  ELSE IF s[i] = "'"
  THEN ShellParse(s, i + 1, IF state = "word" THEN cur ELSE <<>>, "quote", acc)
  ELSE ShellParse(s, i + 1, Append(IF state = "word" THEN cur ELSE <<>>, s[i]),
                  "word", acc)

ShellParseArgv(arguments) == ShellParse(arguments, 1, <<>>, "blank", <<>>)

ArgInputs ==
  {<<"-","a">>,
   <<"-","a"," ","'","b"," ","c","'">>,
   <<"'","a">>,
   <<>>}

(***************************************************************************)
(* The child jobs.  The browser is the job named "chrome".                 *)
(***************************************************************************)
child_jobs_ == <<"chrome", "wm">>

NoPid == -1

\* std::find(child_pids_.begin(), child_pids_.end(), pid): the first index
\* holding pid, 0 for end().
FindChild(pid) ==
  IF \E i \in 1..Len(child_pids_) : child_pids_[i] = pid
  THEN CHOOSE i \in 1..Len(child_pids_) :
         child_pids_[i] = pid /\ \A j \in 1..(i - 1) : child_pids_[j] # pid
  ELSE 0

IsBrowser(pid) == FindChild(pid) # 0 /\ child_jobs_[FindChild(pid)] = "chrome"

PidInputs == NoPid..MaxPid

(***************************************************************************)
(* The initial state: the daemon has initialized (the key was looked for   *)
(* on disk, the policy was loaded) and has run its children.  The device   *)
(* is new, owned, or enrolled; the owner may have lost the private key.    *)
(***************************************************************************)
NoCall == [op |-> "none"]

\* The signals SetupHandlers gives a graceful shutdown handler.
SIGHUP == 1
SIGINT == 2
SIGTERM == 15
GracefulSignals == {SIGHUP, SIGINT, SIGTERM}

\* The state after construction, but for the liveness checker's
\* enable_aborting_, which its constructor takes as an argument.
InitDevice ==
  /\ session_started_ = FALSE
  /\ session_stopping_ = FALSE
  /\ screen_locked_ = FALSE
  /\ user_sessions_ = << >>
  /\ key_ \in {NoKey, K1}
  /\ policy \in {EmptyPolicy, OwnedPolicy(Alice, key_, FALSE),
                 OwnedPolicy(Alice, key_, TRUE)}
  /\ have_checked_disk_ = TRUE
  /\ mitigating_ = FALSE
  /\ \E held \in {{}, {K1}} :
       nss_keys = [u \in Users |-> IF u = Alice THEN held ELSE {}]
  /\ keygen_jobs = <<>>
  /\ logged_in_file = FALSE
  /\ child_pids_ = <<1, 2>>
  /\ job_args = [i \in 1..Len(child_jobs_) |-> <<>>]
  /\ next_pid = 3
  /\ children = {1, 2}
  /\ shutting_down_ = FALSE
  /\ exit_on_child_done_ = FALSE
  /\ file_exists = FALSE
  /\ daemon = "running"
  /\ reset_file = <<>>
  /\ restart_requested = FALSE
  /\ have_replaced_ = FALSE
  /\ policy_file = IF policy = EmptyPolicy THEN NoFile ELSE FileOf(policy)
  /\ serial_recovery_flag_file =
       UpdateSerialNumberRecoveryFlagFile(policy, policy_file)
  /\ settings_ = NoSettings
  /\ persist_pending = FALSE
  /\ user_policy_ = [u \in Users |-> NoUserPolicy]
  /\ outstanding_liveness_ping_ = FALSE
  /\ liveness_check_ = FALSE
  /\ liveness_requests = 0
  /\ ping_unconfirmed = FALSE
  /\ posted_check = FALSE
  /\ sig_disposition = [sig \in GracefulSignals |-> "handler"]
  /\ g_shutdown_pipe_write_fd = -1
  /\ shutdown_pipe = << >>
  /\ kill_watch = FALSE
  /\ idle_shutdowns = 0
  /\ stop_requests = 0
  /\ shutdown_runs = 0
  /\ key_file = IF key_ = NoKey THEN NoKeyFile ELSE KeyFileOf(key_)
  /\ key_persist_pending = FALSE
  /\ last = NoCall

\* Requests are served until the shutdown task runs.
Serving == daemon \in {"running", "shutdown_scheduled"}

ApplyStartSession(r) ==
  /\ user_sessions_' = r.sessions
  /\ session_started_' = r.started
  /\ policy' = r.policy
  /\ mitigating_' = r.mitigating
  /\ keygen_jobs' = keygen_jobs \o r.jobs
  /\ logged_in_file' = r.logged_in

\* The fields a request may write, as they are when the request arrives.
Pre ==
  [sessions |-> user_sessions_, started |-> session_started_,
   stopping |-> session_stopping_, locked |-> screen_locked_,
   policy |-> policy, mitigating |-> mitigating_, key |-> key_,
   jobs |-> keygen_jobs, logged_in |-> logged_in_file, pids |-> child_pids_,
   reset_file |-> reset_file, restart_requested |-> restart_requested]

StartSessionWith(emails, envs) ==
  /\ Serving
  /\ Len(keygen_jobs) < MaxKeygenJobs
  /\ \E email_address \in emails, e \in envs :
       \E r \in {StartSessionCall(email_address, e)} :
          /\ ApplyStartSession(r)
          /\ last' = [op |-> "StartSession", email_address |-> email_address,
                      pre |-> Pre, start |-> r]
  /\ UNCHANGED <<session_stopping_, screen_locked_, key_, have_checked_disk_,
                 nss_keys, childVars, svcVars, daemon>>
  /\ UNCHANGED extVars

StartSession == StartSessionWith(EmailInputs, StartEnv)

\* manager_->ScheduleShutdown(): the shutdown is queued on the main loop, as
\* StopSession of the supervisor queues ServiceShutdown.
ScheduleShutdown == daemon' = "shutdown_scheduled"

StopSession ==
  /\ Serving
  /\ ScheduleShutdown
  /\ last' = [op |-> "StopSession", pre |-> Pre, done |-> TRUE]
  /\ UNCHANGED <<implVars, policyVars, logged_in_file, childVars, svcVars>>
  /\ UNCHANGED extVars

\* The shutdown task, first half.
AnnounceSessionStoppingIfNeeded ==
  /\ daemon = "shutdown_scheduled"
  /\ daemon' = "stopping"
  /\ IF session_started_
     THEN /\ session_stopping_' = TRUE
          /\ last' = [op |-> "AnnounceSessionStoppingIfNeeded", pre |-> Pre,
                      signals |-> <<"SessionStateChanged", kStopping>>]
     ELSE /\ UNCHANGED session_stopping_
          /\ last' = [op |-> "AnnounceSessionStoppingIfNeeded", pre |-> Pre,
                      signals |-> <<>>]
  /\ UNCHANGED <<session_started_, screen_locked_, user_sessions_, policyVars,
                 logged_in_file, childVars, svcVars>>
  /\ UNCHANGED extVars

\* The shutdown task, second half: the signal is emitted, no field is written.
AnnounceSessionStopped ==
  /\ daemon = "stopping"
  /\ daemon' = "stopped"
  /\ last' = [op |-> "AnnounceSessionStopped", pre |-> Pre,
              signals |-> <<"SessionStateChanged", kStopped>>]
  /\ UNCHANGED <<implVars, policyVars, logged_in_file, childVars, svcVars>>
  /\ UNCHANGED extVars

LockScreen ==
  /\ Serving
  /\ IF ~session_started_
     THEN /\ last' = [op |-> "LockScreen", ok |-> FALSE, signals |-> <<>>,
                      pre |-> Pre]
          /\ UNCHANGED screen_locked_
     ELSE IF AllSessionsAreIncognito
     THEN /\ last' = [op |-> "LockScreen", ok |-> FALSE, signals |-> <<>>,
                      pre |-> Pre]
          /\ UNCHANGED screen_locked_
     ELSE /\ screen_locked_' = TRUE
          /\ last' = [op |-> "LockScreen", ok |-> TRUE,
                      signals |-> IF ~screen_locked_
                                  THEN <<"LockScreenRequested">> ELSE <<>>,
                      pre |-> Pre]
  /\ UNCHANGED <<session_started_, session_stopping_, user_sessions_,
                 policyVars, logged_in_file, childVars, svcVars, daemon>>
  /\ UNCHANGED extVars

HandleLockScreenShown ==
  /\ Serving
  /\ last' = [op |-> "HandleLockScreenShown", ok |-> TRUE,
              signals |-> <<"ScreenIsLocked">>,
              pre |-> Pre]
  /\ UNCHANGED <<implVars, policyVars, logged_in_file, childVars, svcVars, daemon>>
  /\ UNCHANGED extVars

HandleLockScreenDismissed ==
  /\ Serving
  /\ screen_locked_' = FALSE
  /\ last' = [op |-> "HandleLockScreenDismissed", ok |-> TRUE,
              signals |-> <<"ScreenIsUnlocked">>,
              pre |-> Pre]
  /\ UNCHANGED <<session_started_, session_stopping_, user_sessions_,
                 policyVars, logged_in_file, childVars, svcVars, daemon>>
  /\ UNCHANGED extVars

\* fork(): the pid the child gets.
RunChild == next_pid

\* The browser is killed with SIGKILL, given the new arguments and run again.
RestartBrowserWithArgs(pid, argv) ==
  /\ child_pids_' = [child_pids_ EXCEPT ![FindChild(pid)] = RunChild]
  /\ job_args' = [job_args EXCEPT ![FindChild(pid)] = argv]
  /\ next_pid' = next_pid + 1
  /\ children' = (children \ {pid}) \cup {RunChild}

RestartJobCall(op, cookie) ==
  \E pid \in PidInputs :
    IF ~IsBrowser(pid)
    THEN /\ last' = [op |-> op, cookie |-> cookie, pre |-> Pre, pid |-> pid,
                     ok |-> FALSE, done |-> FALSE, error |-> "UnknownPid",
                     killed |-> <<>>, relaunched |-> FALSE,
                     guest |-> "not called"]
         /\ UNCHANGED <<session_started_, user_sessions_, policyVars,
                        logged_in_file, childVars, svcVars>>
    ELSE \E arguments \in ArgInputs :
      IF ~ShellParseArgv(arguments).ok
      THEN /\ last' = [op |-> op, cookie |-> cookie, pre |-> Pre, pid |-> pid,
                       ok |-> FALSE, done |-> "untouched",
                       error |-> "ShellParse", killed |-> <<>>,
                       relaunched |-> FALSE, guest |-> "not called"]
           /\ UNCHANGED <<session_started_, user_sessions_, policyVars,
                          logged_in_file, childVars, svcVars>>
      ELSE \E e \in StartEnv :
        \E r \in {StartSessionCall(kGuestUserName, e)} :
           /\ ApplyStartSession(r)
           /\ RestartBrowserWithArgs(pid, ShellParseArgv(arguments).argv)
           /\ last' = [op |-> op, cookie |-> cookie, pre |-> Pre, pid |-> pid,
                       ok |-> r.done, done |-> r.done, error |-> r.error,
                       killed |-> <<pid, "SIGKILL">>, relaunched |-> TRUE,
                       argv |-> ShellParseArgv(arguments).argv,
                       guest |-> IF r.done THEN "started" ELSE "failed",
                       start |-> r]
           /\ UNCHANGED <<key_, have_checked_disk_, nss_keys, svcVars>>

RestartJob ==
  /\ Serving
  /\ next_pid <= MaxPid
  /\ Len(keygen_jobs) < MaxKeygenJobs
  /\ RestartJobCall("RestartJob", "none")
  /\ UNCHANGED <<session_stopping_, screen_locked_, daemon>>
  /\ UNCHANGED extVars

RestartJobWithAuth ==
  /\ Serving
  /\ next_pid <= MaxPid
  /\ Len(keygen_jobs) < MaxKeygenJobs
  /\ \E cookie \in CookieInputs :
       IF ~IsValidCookie(cookie)
       THEN /\ last' = [op |-> "RestartJobWithAuth", cookie |-> cookie,
                        pre |-> Pre, pid |-> NoPid, ok |-> FALSE,
                        done |-> FALSE, error |-> "IllegalService",
                        killed |-> <<>>, relaunched |-> FALSE,
                        guest |-> "not called"]
            /\ UNCHANGED <<session_started_, user_sessions_, policyVars,
                           logged_in_file, childVars, svcVars>>
       ELSE RestartJobCall("RestartJobWithAuth", cookie)
  /\ UNCHANGED <<session_stopping_, screen_locked_, daemon>>
  /\ UNCHANGED extVars

\* The daemon's checker aborts a browser that does not answer.
Init ==
  /\ InitDevice
  /\ enable_aborting_ = TRUE

Next ==
  \/ StartSession
  \/ StopSession
  \/ AnnounceSessionStoppingIfNeeded
  \/ AnnounceSessionStopped
  \/ LockScreen
  \/ HandleLockScreenShown
  \/ HandleLockScreenDismissed

Spec == Init /\ [][Next]_vars

(***************************************************************************)
(* The restart requests, on a device nobody owns yet.                      *)
(***************************************************************************)
InitRestart ==
  /\ Init
  /\ key_ = NoKey
  /\ policy = EmptyPolicy
  /\ nss_keys = [u \in Users |-> {}]

NextRestart ==
  \/ RestartJob
  \/ RestartJobWithAuth
  \/ StartSession
  \/ StopSession
  \/ AnnounceSessionStoppingIfNeeded
  \/ AnnounceSessionStopped

SpecRestart == InitRestart /\ [][NextRestart]_vars

(***************************************************************************)
(* The device wipe.                                                        *)
(***************************************************************************)
\* InitiateDeviceWipe writes this to kResetFile.
kResetContents == <<"fast safe">>

StartDeviceWipeCall_NoMarkerCheck ==
  [ok |-> TRUE, done |-> TRUE, error |-> "none", reset_file |-> kResetContents,
   restart_requested |-> TRUE, wrote |-> TRUE, called_power_manager |-> TRUE]

\* StartDeviceWipe as a function of the state: refused when kLoggedInFlag
\* exists, else InitiateDeviceWipe runs.
StartDeviceWipeCall ==
  IF logged_in_file
  THEN [ok |-> FALSE, done |-> "untouched", error |-> "AlreadySession",
        reset_file |-> reset_file, restart_requested |-> restart_requested,
        wrote |-> FALSE, called_power_manager |-> FALSE]
  ELSE [ok |-> TRUE, done |-> TRUE, error |-> "none",
        reset_file |-> kResetContents, restart_requested |-> TRUE,
        wrote |-> TRUE, called_power_manager |-> TRUE]

StartDeviceWipe ==
  /\ Serving
  /\ \E r \in {StartDeviceWipeCall} :
       /\ reset_file' = r.reset_file
       /\ restart_requested' = r.restart_requested
       /\ last' = [op |-> "StartDeviceWipe", pre |-> Pre, wipe |-> r]
  /\ UNCHANGED <<implVars, policyVars, logged_in_file, childVars, svcVars,
                 daemon, storeVars, user_policy_, livenessVars, signalVars, key_file,
                 key_persist_pending>>

NextWipe ==
  \/ StartDeviceWipe
  \/ StartSession
  \/ StopSession
  \/ AnnounceSessionStoppingIfNeeded
  \/ AnnounceSessionStopped

SpecWipe == InitRestart /\ [][NextWipe]_vars

(***************************************************************************)
(* The device policy requests.                                             *)
(***************************************************************************)
\* What a policy request may write, as it is when the request arrives.
StorePre ==
  [policy |-> policy, key |-> key_, replaced |-> have_replaced_,
   file |-> policy_file, flag_file |-> serial_recovery_flag_file,
   settings |-> settings_, pending |-> persist_pending,
   started |-> session_started_, mitigating |-> mitigating_]

\* The flags StorePolicy passes for the device policy.
StorePolicyFlags_Always == {KEY_ROTATE, KEY_INSTALL_NEW, KEY_CLOBBER}

StorePolicyFlags ==
  IF ~session_started_ THEN {KEY_ROTATE, KEY_INSTALL_NEW, KEY_CLOBBER}
  ELSE {KEY_ROTATE}

StorePolicyFrom(blobs) ==
  /\ Serving
  /\ \E policy_blob \in blobs :
       \E r \in {DevicePolicyServiceStore(policy_blob, StorePolicyFlags)} :
         /\ key_' = r.key
         /\ have_replaced_' = r.replaced
         /\ policy' = r.policy
         /\ persist_pending' = (persist_pending \/ r.persist_scheduled)
         /\ serial_recovery_flag_file' = r.flag_file
         /\ settings_' = r.settings
         /\ last' = [op |-> "StorePolicy", policy_blob |-> policy_blob,
                     flags |-> StorePolicyFlags, pre |-> StorePre, store |-> r]
  /\ UNCHANGED <<implVars, have_checked_disk_, mitigating_, nss_keys,
                 keygen_jobs, logged_in_file, childVars, svcVars, daemon,
                 wipeVars, policy_file, user_policy_,
                 livenessVars, signalVars, key_file,
                 key_persist_pending>>

StorePolicy == StorePolicyFrom(BlobInputs)

\* The latest Store, if nothing but its Persist ran since.
LatestStore ==
  IF last.op = "StorePolicy"
  THEN [any |-> TRUE, policy_blob |-> last.policy_blob, pre |-> last.pre,
        store |-> last.store, persisted |-> FALSE]
  ELSE IF last.op = "PersistPolicy" THEN last.after
  ELSE [any |-> FALSE]

RetrievePolicy ==
  /\ Serving
  /\ last' = [op |-> "RetrievePolicy", ok |-> TRUE,
              policy_blob |-> SerializeToString(policy), after |-> LatestStore]
  /\ UNCHANGED <<implVars, policyVars, logged_in_file, childVars, svcVars,
                 daemon, extVars>>

\* The queued Persist task runs: the record is written to the policy file,
\* and OnPolicyPersisted reads the settings.
\* Tasks run in the order they were posted: ValidateAndStoreOwnerKey posts
\* the key Persist before the policy Persist.
PersistPolicy ==
  /\ daemon # "stopped"
  /\ persist_pending
  /\ ~key_persist_pending
  /\ persist_pending' = FALSE
  /\ policy_file' = FileOf(policy)
  /\ settings_' = GetSettings
  /\ last' = [op |-> "PersistPolicy", signals |-> <<"PropertyChangeComplete", "success">>,
              after |-> IF last.op = "StorePolicy"
                        THEN [LatestStore EXCEPT !.persisted = TRUE]
                        ELSE [any |-> FALSE]]
  /\ UNCHANGED <<implVars, policyVars, logged_in_file, childVars, svcVars,
                 daemon, wipeVars, have_replaced_, serial_recovery_flag_file,
                 user_policy_, livenessVars, signalVars, key_file,
                 key_persist_pending>>

\* The sign-ins of the policy specification: the owner and a guest, with the
\* signal emission failing or not.
PolicyEmailInputs == {Alice, kGuestUserName}

PolicyStartEnv ==
  {e \in StartEnv : e.policy_ok /\ e.slot_ok /\ e.sign_ok /\ e.fork_ok}

PolicyStartSession == StartSessionWith(PolicyEmailInputs, PolicyStartEnv)

NextPolicy ==
  \/ StorePolicy
  \/ RetrievePolicy
  \/ PersistPolicy
  \/ PolicyStartSession

InitPolicy ==
  /\ Init
  /\ policy \in {EmptyPolicy, OwnedPolicy(Alice, key_, FALSE)}

SpecPolicy == InitPolicy /\ [][NextPolicy]_vars

(***************************************************************************)
(* The user policy requests.                                               *)
(***************************************************************************)
\* GetPolicyService: the name the session is looked up under and whether a
\* session was found.
GetPolicyService(user_email) ==
  LET username == StringToLowerASCII(GCharToString(user_email))
  IN [found |-> username \in DOMAIN user_sessions_, username |-> username]

UserEmailInputs == {Alice, AliceUpper, Bob}

UserBlobInputs ==
  {SerializeToString(Envelope(FALSE, FALSE, K1, K1, NoKey)),
   SerializeToString(Envelope(FALSE, FALSE, BadSig, NoKey, NoKey))}

StorePolicyForUser ==
  /\ Serving
  /\ \E user_email \in UserEmailInputs, policy_blob \in UserBlobInputs :
       \E svc \in {GetPolicyService(user_email)} :
         IF ~svc.found
         THEN /\ last' = [op |-> "StorePolicyForUser", user_email |-> user_email,
                          pre |-> [sessions |-> user_sessions_,
                                   services |-> user_policy_, policy |-> policy],
                          ok |-> FALSE, error |-> "SessionExists",
                          service |-> <<>>]
              /\ UNCHANGED user_policy_
         ELSE \E r \in {PolicyServiceStore(user_policy_[svc.username], policy_blob,
                                           {KEY_INSTALL_NEW, KEY_ROTATE})} :
              /\ user_policy_' =
                   [user_policy_ EXCEPT ![svc.username] =
                      [key |-> r.key, replaced |-> r.replaced, checked |-> @.checked,
                       policy |-> r.policy,
                       pending |-> (@.pending \/ r.persist_scheduled),
                       file |-> @.file]]
              /\ last' = [op |-> "StorePolicyForUser", user_email |-> user_email,
                          pre |-> [sessions |-> user_sessions_,
                                   services |-> user_policy_, policy |-> policy],
                          ok |-> r.ok, error |-> r.error,
                          service |-> svc.username]
  /\ UNCHANGED <<implVars, policyVars, logged_in_file, childVars, svcVars,
                 daemon, wipeVars, storeVars, livenessVars, signalVars, key_file,
                 key_persist_pending>>

RetrievePolicyForUser ==
  /\ Serving
  /\ \E user_email \in UserEmailInputs :
       \E svc \in {GetPolicyService(user_email)} :
         IF ~svc.found
         THEN last' = [op |-> "RetrievePolicyForUser", user_email |-> user_email,
                       pre |-> [sessions |-> user_sessions_,
                                services |-> user_policy_, policy |-> policy],
                       ok |-> FALSE, error |-> "SessionExists",
                       service |-> <<>>]
         ELSE last' = [op |-> "RetrievePolicyForUser", user_email |-> user_email,
                       pre |-> [sessions |-> user_sessions_,
                                services |-> user_policy_, policy |-> policy],
                       ok |-> TRUE, error |-> "none",
                       service |-> svc.username,
                       policy_blob |->
                         SerializeToString(user_policy_[svc.username].policy)]
  /\ UNCHANGED <<implVars, policyVars, logged_in_file, childVars, svcVars,
                 daemon, extVars>>

\* The Persist task a user policy service queued runs.
PersistUserPolicy ==
  /\ daemon # "stopped"
  /\ \E u \in Users :
       /\ user_policy_[u].pending
       /\ user_policy_' = [user_policy_ EXCEPT ![u].pending = FALSE,
                                               ![u].file = FileOf(user_policy_[u].policy)]
       /\ last' = [op |-> "PersistUserPolicy", service |-> u]
  /\ UNCHANGED <<implVars, policyVars, logged_in_file, childVars, svcVars,
                 daemon, wipeVars, storeVars, livenessVars, signalVars, key_file,
                 key_persist_pending>>

\* The sign-ins of the user policy specification.
UserPolicyEmailInputs == {Alice, Bob}

UserPolicyStartEnv ==
  {e \in StartEnv : e.policy_ok /\ e.slot_ok /\ e.sign_ok /\ e.fork_ok /\
                    e.emit_ok}

UserPolicyStartSession ==
  StartSessionWith(UserPolicyEmailInputs, UserPolicyStartEnv)

NextUserPolicy ==
  \/ StorePolicyForUser
  \/ RetrievePolicyForUser
  \/ PersistUserPolicy
  \/ UserPolicyStartSession

SpecUserPolicy == InitRestart /\ [][NextUserPolicy]_vars

(***************************************************************************)
(* The liveness checker (liveness_checker_impl.cc).                        *)
(***************************************************************************)
kLivenessRequestedSignal == "LivenessRequested"

\* The model stops ticking after this many LivenessRequested signals.
MaxLivenessRequests == 5

CheckAndSendLivenessPingCall_AbortKeepsRunning(outstanding, aborting) ==
  IF outstanding /\ aborting
  THEN [aborted |-> TRUE, warned |-> TRUE, outstanding |-> outstanding,
        scheduled |-> TRUE, signals |-> << >>]
  ELSE [aborted |-> FALSE, warned |-> outstanding, outstanding |-> TRUE,
        scheduled |-> TRUE, signals |-> <<kLivenessRequestedSignal>>]

CheckAndSendLivenessPingCall_AlwaysAbort(outstanding, aborting) ==
  IF aborting
  THEN [aborted |-> TRUE, warned |-> outstanding, outstanding |-> outstanding,
        scheduled |-> FALSE, signals |-> << >>]
  ELSE [aborted |-> FALSE, warned |-> outstanding, outstanding |-> TRUE,
        scheduled |-> TRUE, signals |-> <<kLivenessRequestedSignal>>]

\* CheckAndSendLivenessPing as a function of the checker: with the previous
\* ping unanswered it warns and, when aborting is enabled, calls
\* AbortBrowser() and Stop() and returns; otherwise it marks a ping
\* outstanding, emits the signal and schedules the next check.
CheckAndSendLivenessPingCall(outstanding, aborting) ==
  IF outstanding /\ aborting
  THEN [aborted |-> TRUE, warned |-> TRUE, outstanding |-> outstanding,
        scheduled |-> FALSE, signals |-> << >>]
  ELSE [aborted |-> FALSE, warned |-> outstanding, outstanding |-> TRUE,
        scheduled |-> TRUE, signals |-> <<kLivenessRequestedSignal>>]

\* The checker as a request finds it.
LivenessPre ==
  [outstanding |-> outstanding_liveness_ping_, scheduled |-> liveness_check_,
   requests |-> liveness_requests, ping_unconfirmed |-> ping_unconfirmed,
   posted |-> posted_check]

\* Start(): Stop(), clear the flag, schedule the first check.
Start ==
  /\ outstanding_liveness_ping_' = FALSE
  /\ liveness_check_' = TRUE
  /\ posted_check' = TRUE
  /\ last' = [op |-> "Start", pre |-> LivenessPre]
  /\ UNCHANGED <<implVars, policyVars, logged_in_file, childVars, svcVars,
                 daemon, key_file, key_persist_pending, signalVars, wipeVars, storeVars, user_policy_, enable_aborting_,
                 liveness_requests, ping_unconfirmed>>

\* Stop() without liveness_check_.Cancel().
Stop_InvalidatesOnly ==
  /\ liveness_check_' = liveness_check_
  /\ posted_check' = FALSE
  /\ last' = [op |-> "Stop", pre |-> LivenessPre]
  /\ UNCHANGED <<implVars, policyVars, logged_in_file, childVars, svcVars,
                 daemon, key_file, key_persist_pending, signalVars, wipeVars, storeVars, user_policy_,
                 outstanding_liveness_ping_, enable_aborting_,
                 liveness_requests, ping_unconfirmed>>

\* Stop(): invalidate the posted callback and cancel the scheduled check;
\* the flag is left as it is.
Stop ==
  /\ liveness_check_' = FALSE
  /\ posted_check' = FALSE
  /\ last' = [op |-> "Stop", pre |-> LivenessPre]
  /\ UNCHANGED <<implVars, policyVars, logged_in_file, childVars, svcVars,
                 daemon, key_file, key_persist_pending, signalVars, wipeVars, storeVars, user_policy_,
                 outstanding_liveness_ping_, enable_aborting_,
                 liveness_requests, ping_unconfirmed>>

\* HandleLivenessConfirmed(): the browser answered.
HandleLivenessConfirmed ==
  /\ outstanding_liveness_ping_' = FALSE
  /\ ping_unconfirmed' = FALSE
  /\ last' = [op |-> "HandleLivenessConfirmed", pre |-> LivenessPre]
  /\ UNCHANGED <<implVars, policyVars, logged_in_file, childVars, svcVars,
                 daemon, key_file, key_persist_pending, signalVars, wipeVars, storeVars, user_policy_, liveness_check_,
                 enable_aborting_, liveness_requests, posted_check>>

\* The posted check runs, kLivenessCheckIntervalSeconds after it was posted,
\* if its callback is still valid; it posts the next one unless it aborts.
CheckAndSendLivenessPing ==
  /\ posted_check
  /\ liveness_requests < MaxLivenessRequests
  /\ \E r \in {CheckAndSendLivenessPingCall(outstanding_liveness_ping_,
                                            enable_aborting_)} :
       /\ outstanding_liveness_ping_' = r.outstanding
       /\ liveness_check_' = r.scheduled
       /\ posted_check' = ~r.aborted
       /\ liveness_requests' = liveness_requests + Len(r.signals)
       /\ ping_unconfirmed' = IF r.signals = << >> THEN ping_unconfirmed ELSE TRUE
       /\ last' = [op |-> "CheckAndSendLivenessPing", pre |-> LivenessPre,
                   tick |-> r]
  /\ UNCHANGED <<implVars, policyVars, logged_in_file, childVars, svcVars,
                 daemon, key_file, key_persist_pending, signalVars, wipeVars, storeVars, user_policy_, enable_aborting_>>

\* IsRunning(): the scheduled check has not been cancelled.
IsRunning == liveness_check_

NextLiveness ==
  \/ Start
  \/ Stop
  \/ HandleLivenessConfirmed
  \/ CheckAndSendLivenessPing

\* The checker is built with or without aborting.
InitLiveness ==
  /\ InitDevice
  /\ key_ = NoKey
  /\ policy = EmptyPolicy
  /\ nss_keys = [u \in Users |-> {}]
  /\ enable_aborting_ \in BOOLEAN

SpecLiveness == InitLiveness /\ [][NextLiveness]_vars

(***************************************************************************)
(* The child supervisor (session_manager_service.cc).                      *)
(***************************************************************************)
ShouldRunChildren == ~file_exists

\* Shutdown(): "stopped" is announced if a session started; the main loop
\* quits.
Shutdown ==
  [daemon |-> "stopped",
   signals |-> IF session_started_ THEN <<"SessionStateChanged", kStopped>>
               ELSE <<>>]

\* AllowGracefulExit(): the daemon state it leaves.  ServiceShutdown is queued
\* on the main loop if exit_on_child_done_.
AllowGracefulExit ==
  IF exit_on_child_done_ THEN "shutdown_scheduled" ELSE daemon

\* The daemon as its constructor leaves it, whatever the disk holds.
InitConstructed ==
  /\ session_started_ = FALSE
  /\ session_stopping_ = FALSE
  /\ screen_locked_ = FALSE
  /\ user_sessions_ = << >>
  /\ key_ = NoKey
  /\ policy = EmptyPolicy
  /\ have_checked_disk_ = FALSE
  /\ mitigating_ = FALSE
  /\ nss_keys = [u \in Users |-> {}]
  /\ keygen_jobs = <<>>
  /\ logged_in_file = FALSE
  /\ child_pids_ = [i \in 1..Len(child_jobs_) |-> NoPid]
  /\ job_args = [i \in 1..Len(child_jobs_) |-> <<>>]
  /\ next_pid = 1
  /\ children = {}
  /\ shutting_down_ = FALSE
  /\ exit_on_child_done_ \in BOOLEAN
  /\ file_exists \in BOOLEAN
  /\ daemon = "constructed"
  /\ reset_file = <<>>
  /\ restart_requested = FALSE
  /\ have_replaced_ = FALSE
  /\ policy_file = IF policy = EmptyPolicy THEN NoFile ELSE FileOf(policy)
  /\ serial_recovery_flag_file =
       UpdateSerialNumberRecoveryFlagFile(policy, policy_file)
  /\ settings_ = NoSettings
  /\ persist_pending = FALSE
  /\ user_policy_ = [u \in Users |-> NoUserPolicy]
  /\ outstanding_liveness_ping_ = FALSE
  /\ liveness_check_ = FALSE
  /\ liveness_requests = 0
  /\ ping_unconfirmed = FALSE
  /\ posted_check = FALSE
  /\ sig_disposition = [sig \in GracefulSignals |-> "handler"]
  /\ g_shutdown_pipe_write_fd = -1
  /\ shutdown_pipe = << >>
  /\ kill_watch = FALSE
  /\ idle_shutdowns = 0
  /\ stop_requests = 0
  /\ shutdown_runs = 0
  /\ key_persist_pending = FALSE
  /\ enable_aborting_ = TRUE
  /\ last = NoCall

\* The daemon starts on a device without an owner key file.
InitSupervisor ==
  /\ InitConstructed
  /\ key_file = NoKeyFile

\* The descriptor pipe() returns for the write end of the shutdown pipe.
kShutdownPipeWriteFd == 4

\* Run(), up to the main loop: the shutdown pipe is created and HandleKill
\* watches its read end; RunChildren() forks every job in order.
Run ==
  /\ daemon = "constructed"
  /\ IF ShouldRunChildren
     THEN /\ child_pids_' = [i \in 1..Len(child_jobs_) |-> next_pid + i - 1]
          /\ children' = {next_pid + i - 1 : i \in 1..Len(child_jobs_)}
          /\ next_pid' = next_pid + Len(child_jobs_)
          /\ daemon' = "running"
          /\ UNCHANGED shutting_down_
     ELSE /\ shutting_down_' = TRUE
          /\ daemon' = IF exit_on_child_done_ THEN "shutdown_scheduled"
                       ELSE "running"
          /\ UNCHANGED <<child_pids_, children, next_pid>>
  /\ g_shutdown_pipe_write_fd' = kShutdownPipeWriteFd
  /\ kill_watch' = TRUE
  /\ last' = [op |-> "Run"]
  /\ UNCHANGED <<implVars, policyVars, logged_in_file, job_args,
                 exit_on_child_done_, file_exists>>
  /\ UNCHANGED <<key_file, key_persist_pending, wipeVars, storeVars, user_policy_, livenessVars,
                 sig_disposition, shutdown_pipe, idle_shutdowns, stop_requests,
                 shutdown_runs>>

\* The file that tells the daemon to stop running children appears.
FileAppears ==
  /\ daemon \notin {"stopped", "exited"}
  /\ ~file_exists
  /\ file_exists' = TRUE
  /\ last' = [op |-> "FileAppears"]
  /\ UNCHANGED <<implVars, policyVars, logged_in_file, childVars,
                 shutting_down_, exit_on_child_done_, daemon>>
  /\ UNCHANGED extVars

ServiceLockScreen ==
  /\ Serving
  /\ screen_locked_' = TRUE
  /\ last' = [op |-> "ServiceLockScreen", signals |-> <<"LockScreen">>]
  /\ UNCHANGED <<session_started_, session_stopping_, user_sessions_,
                 policyVars, logged_in_file, childVars, svcVars, daemon>>
  /\ UNCHANGED extVars

ServiceUnlockScreen ==
  /\ Serving
  /\ screen_locked_' = FALSE
  /\ last' = [op |-> "ServiceUnlockScreen", signals |-> <<"UnlockScreen">>]
  /\ UNCHANGED <<session_started_, session_stopping_, user_sessions_,
                 policyVars, logged_in_file, childVars, svcVars, daemon>>
  /\ UNCHANGED extVars

\* StopSession of the supervisor: ServiceShutdown is queued on the main loop.
ServiceStopSession ==
  /\ Serving
  /\ daemon' = "shutdown_scheduled"
  /\ last' = [op |-> "ServiceStopSession", done |-> TRUE]
  /\ UNCHANGED <<implVars, policyVars, logged_in_file, childVars, svcVars>>
  /\ UNCHANGED extVars

\* The queued ServiceShutdown runs.
ServiceShutdown ==
  /\ daemon = "shutdown_scheduled"
  /\ daemon' = Shutdown.daemon
  /\ last' = [op |-> "ServiceShutdown", signals |-> Shutdown.signals]
  /\ UNCHANGED <<implVars, policyVars, logged_in_file, childVars, svcVars>>
  /\ UNCHANGED extVars

ChildExitDecision_WhileShuttingDown(i_child, should_stop) ==
  IF screen_locked_ THEN "shutdown"
  ELSE IF i_child = 0 THEN "unknown"
  ELSE IF should_stop THEN "shutdown"
  ELSE IF ShouldRunChildren THEN "rerun"
  ELSE "graceful"

ChildExitDecision_LockIgnored(i_child, should_stop) ==
  IF shutting_down_ THEN "ignore"
  ELSE IF i_child = 0 THEN "unknown"
  ELSE IF should_stop THEN "shutdown"
  ELSE IF ShouldRunChildren THEN "rerun"
  ELSE "graceful"

\* What HandleChildExit does for the child at index i_child (0: the pid is
\* not in child_pids_); should_stop: child_job->ShouldStop().
ChildExitDecision(i_child, should_stop) ==
  IF shutting_down_ THEN "ignore"
  ELSE IF screen_locked_ THEN "shutdown"
  ELSE IF i_child = 0 THEN "unknown"
  ELSE IF should_stop THEN "shutdown"
  ELSE IF ShouldRunChildren THEN "rerun"
  ELSE "graceful"

\* A child exits and the child watch runs.
HandleChildExit ==
  /\ Serving
  /\ next_pid <= MaxPid
  /\ \E pid \in children, should_stop \in BOOLEAN :
       \E i_child \in {FindChild(pid)} :
       \E decision \in {ChildExitDecision(i_child, should_stop)} :
         /\ child_pids_' =
              IF decision = "ignore" \/ i_child = 0 THEN child_pids_
              ELSE [child_pids_ EXCEPT
                      ![i_child] = IF decision = "rerun" THEN RunChild
                                   ELSE NoPid]
         /\ children' = IF decision = "rerun"
                        THEN (children \ {pid}) \cup {RunChild}
                        ELSE children \ {pid}
         /\ next_pid' = IF decision = "rerun" THEN next_pid + 1 ELSE next_pid
         /\ shutting_down_' = (shutting_down_ \/ decision = "graceful")
         /\ daemon' = CASE decision = "shutdown" -> Shutdown.daemon
                        [] decision = "graceful" -> AllowGracefulExit
                        [] OTHER -> daemon
         /\ last' = [op |-> "HandleChildExit", pid |-> pid,
                     job |-> IF i_child = 0 THEN "none" ELSE child_jobs_[i_child],
                     should_stop |-> should_stop,
                     pre |-> [locked |-> screen_locked_,
                              shutting_down |-> shutting_down_,
                              file_exists |-> file_exists,
                              pids |-> child_pids_, children |-> children,
                              next_pid |-> next_pid, daemon |-> daemon],
                     swept |-> <<-pid, "SIGKILL">>,
                     signals |-> IF decision = "shutdown" THEN Shutdown.signals
                                 ELSE <<>>]
  /\ UNCHANGED <<implVars, policyVars, logged_in_file, job_args,
                 exit_on_child_done_, file_exists>>
  /\ UNCHANGED extVars

\* SessionManagerService::kIncognitoUser.
kIncognitoUser == <<>>

\* StartSession of the supervisor, on a device nobody owns (no owner pref is
\* stored, so CurrentUserIsOwner is false and StoreOwnerProperties stores
\* nothing): what it returns and the session_started_ it leaves.
ServiceStartSessionCall(email_address, emit_ok) ==
  IF session_started_
  THEN [done |-> FALSE, error |-> "SessionExists", started |-> session_started_,
        signals |-> <<>>]
  ELSE IF email_address # kIncognitoUser /\ ~ValidateEmail(email_address)
  THEN [done |-> FALSE, error |-> "InvalidEmail", started |-> session_started_,
        signals |-> <<>>]
  ELSE IF ~emit_ok
  THEN [done |-> FALSE, error |-> "EmitFailed", started |-> session_started_,
        signals |-> <<>>]
  ELSE [done |-> TRUE, error |-> "none", started |-> TRUE,
        signals |-> <<"SessionStateChanged", kStarted>>]

\* The arguments the supervisor's RestartJob is called with.
ServiceArgInputs == {<<"-","a">>, <<>>}

\* RestartJob of the supervisor: the pid is looked up in child_pids_; the
\* process group of the child found is killed, the job gets the new arguments
\* and is run again, and a session is started for the incognito user.
ServiceRestartJob ==
  /\ Serving
  /\ next_pid <= MaxPid
  /\ \E pid \in PidInputs :
       IF ~IsBrowser(pid)
       THEN /\ last' = [op |-> "ServiceRestartJob", pid |-> pid,
                        pre |-> [pids |-> child_pids_, children |-> children,
                                 started |-> session_started_,
                                 args |-> job_args],
                        ok |-> FALSE, done |-> FALSE, error |-> "UnknownPid",
                        killed |-> <<>>, relaunched |-> FALSE,
                        guest |-> "not called"]
            /\ UNCHANGED <<session_started_, childVars>>
       ELSE \E arguments \in ServiceArgInputs, emit_ok \in BOOLEAN :
            \E r \in {ServiceStartSessionCall(kIncognitoUser, emit_ok)} :
              /\ RestartBrowserWithArgs(pid, arguments)
              /\ session_started_' = r.started
              /\ last' = [op |-> "ServiceRestartJob", pid |-> pid,
                          pre |-> [pids |-> child_pids_, children |-> children,
                                   started |-> session_started_,
                                   args |-> job_args],
                          ok |-> r.done, done |-> r.done, error |-> r.error,
                          killed |-> <<-pid, "SIGKILL">>, relaunched |-> TRUE,
                          guest |-> IF r.done THEN "started" ELSE "failed"]
  /\ UNCHANGED <<session_stopping_, screen_locked_, user_sessions_, policyVars,
                 logged_in_file, svcVars, daemon>>
  /\ UNCHANGED extVars

NextSupervisor ==
  \/ Run
  \/ FileAppears
  \/ ServiceLockScreen
  \/ ServiceUnlockScreen
  \/ ServiceStopSession
  \/ ServiceShutdown
  \/ HandleChildExit
  \/ ServiceRestartJob

SpecSupervisor == InitSupervisor /\ [][NextSupervisor]_vars

(***************************************************************************)
(* The end of Run(): the main loop has quit and CleanupChildren runs.      *)
(***************************************************************************)
SIGKILL == 9
SIGABRT == 6

\* getuid(): the uid the daemon runs as.
DaemonUid == "getuid"

\* job->GetDesiredUid().
DesiredUid(i) == <<"uid", child_jobs_[i]>>

JobIndexes == [i \in 1..Len(child_jobs_) |-> i]

CleanupChildrenCall_IgnoresNeverKill(pids, never_kill, uid_set, started, gone) ==
  LET to_kill == SelectSeq(JobIndexes, LAMBDA i : pids[i] >= 0)
      uid(i) == IF uid_set[i] THEN DesiredUid(i) ELSE DaemonUid
      first == [k \in 1..Len(to_kill) |->
                  [job |-> to_kill[k], pid |-> pids[to_kill[k]],
                   uid |-> uid(to_kill[k]),
                   sig |-> IF started THEN SIGTERM ELSE SIGKILL]]
      late == SelectSeq(to_kill, LAMBDA i : pids[i] \notin gone)
  IN first \o [k \in 1..Len(late) |->
                 [job |-> late[k], pid |-> pids[late[k]],
                  uid |-> uid(late[k]), sig |-> SIGABRT]]

\* CleanupChildren(timeout): the calls of system_->kill, in order.
\* never_kill[i]: job->ShouldNeverKill(); uid_set[i]: job->IsDesiredUidSet();
\* gone: the pids ChildIsGone(pid, timeout) answers true for.
CleanupChildrenCall(pids, never_kill, uid_set, started, gone) ==
  LET to_kill == SelectSeq(JobIndexes,
                           LAMBDA i : pids[i] >= 0 /\ ~never_kill[i])
      uid(i) == IF uid_set[i] THEN DesiredUid(i) ELSE DaemonUid
      first == [k \in 1..Len(to_kill) |->
                  [job |-> to_kill[k], pid |-> pids[to_kill[k]],
                   uid |-> uid(to_kill[k]),
                   sig |-> IF started THEN SIGTERM ELSE SIGKILL]]
      late == SelectSeq(to_kill, LAMBDA i : pids[i] \notin gone)
  IN first \o [k \in 1..Len(late) |->
                 [job |-> late[k], pid |-> pids[late[k]],
                  uid |-> uid(late[k]), sig |-> SIGABRT]]

\* g_main_loop_run has returned: Run() cleans up the children and returns.
\* A child that has exited already is gone whenever it is asked about.
CleanupChildren ==
  /\ daemon = "stopped"
  /\ \E never_kill \in [1..Len(child_jobs_) -> BOOLEAN],
        uid_set \in [1..Len(child_jobs_) -> BOOLEAN],
        gone \in SUBSET {child_pids_[i] : i \in 1..Len(child_jobs_)} :
       /\ \A i \in 1..Len(child_jobs_) :
            (child_pids_[i] >= 0 /\ child_pids_[i] \notin children)
              => child_pids_[i] \in gone
       /\ NoPid \notin gone
       /\ last' = [op |-> "CleanupChildren",
                   pre |-> [pids |-> child_pids_, children |-> children,
                            started |-> session_started_],
                   never_kill |-> never_kill, uid_set |-> uid_set,
                   gone |-> gone,
                   kills |-> CleanupChildrenCall(child_pids_, never_kill, uid_set,
                                                 session_started_, gone)]
  /\ daemon' = "exited"
  /\ UNCHANGED <<implVars, policyVars, logged_in_file, childVars, svcVars>>
  /\ UNCHANGED extVars

NextCleanup ==
  \/ Run
  \/ FileAppears
  \/ ServiceStopSession
  \/ ServiceShutdown
  \/ HandleChildExit
  \/ ServiceRestartJob
  \/ CleanupChildren

SpecCleanup == InitSupervisor /\ [][NextCleanup]_vars

(***************************************************************************)
(* Graceful shutdown on SIGHUP, SIGINT and SIGTERM.                        *)
(***************************************************************************)
\* The model serves this many StopSession requests.
MaxStopRequests == 2

\* The process exists: Run() has not returned and no signal has ended it.
Alive == daemon \in {"constructed", "running", "stopped"}

GracefulShutdownHandler_KeepsHandler(sig) ==
  IF g_shutdown_pipe_write_fd = -1
  THEN [disposition |-> sig_disposition, pipe |-> shutdown_pipe,
        daemon |-> "aborted"]
  ELSE [disposition |-> sig_disposition, pipe |-> Append(shutdown_pipe, sig),
        daemon |-> daemon]

\* GracefulShutdownHandler(signal): the default handler is reinstalled, then
\* the signal number is written to the shutdown pipe; RAW_CHECK ends the
\* process when the pipe does not exist yet.
GracefulShutdownHandler(sig) ==
  IF g_shutdown_pipe_write_fd = -1
  THEN [disposition |-> [sig_disposition EXCEPT ![sig] = "SIG_DFL"],
        pipe |-> shutdown_pipe, daemon |-> "aborted"]
  ELSE [disposition |-> [sig_disposition EXCEPT ![sig] = "SIG_DFL"],
        pipe |-> Append(shutdown_pipe, sig), daemon |-> daemon]

SignalPre ==
  [disposition |-> sig_disposition, pipe |-> shutdown_pipe, daemon |-> daemon,
   runs |-> shutdown_runs, fd |-> g_shutdown_pipe_write_fd]

\* The kernel delivers SIGHUP, SIGINT or SIGTERM: the installed handler
\* runs, or the default action ends the process.
DeliverSignal ==
  /\ Alive
  /\ \E sig \in GracefulSignals :
       IF sig_disposition[sig] = "SIG_DFL"
       THEN /\ daemon' = "killed"
            /\ last' = [op |-> "DeliverSignal", sig |-> sig, pre |-> SignalPre,
                        handled |-> FALSE]
            /\ UNCHANGED <<sig_disposition, shutdown_pipe>>
       ELSE \E r \in {GracefulShutdownHandler(sig)} :
            /\ sig_disposition' = r.disposition
            /\ shutdown_pipe' = r.pipe
            /\ daemon' = r.daemon
            /\ last' = [op |-> "DeliverSignal", sig |-> sig, pre |-> SignalPre,
                        handled |-> TRUE]
  /\ UNCHANGED <<implVars, policyVars, logged_in_file, childVars, svcVars,
                 key_file, key_persist_pending, wipeVars, storeVars, user_policy_, livenessVars,
                 g_shutdown_pipe_write_fd, kill_watch, idle_shutdowns,
                 stop_requests, shutdown_runs>>

\* StopSession of the supervisor, with the idle source it queues.
QueueStopSession ==
  /\ daemon = "running"
  /\ stop_requests < MaxStopRequests
  /\ idle_shutdowns' = idle_shutdowns + 1
  /\ stop_requests' = stop_requests + 1
  /\ last' = [op |-> "StopSession", pre |-> SignalPre, done |-> TRUE]
  /\ UNCHANGED <<implVars, policyVars, logged_in_file, childVars, svcVars,
                 daemon, key_file, key_persist_pending, wipeVars, storeVars, user_policy_, livenessVars,
                 sig_disposition, g_shutdown_pipe_write_fd, shutdown_pipe,
                 kill_watch, shutdown_runs>>

\* The main loop finds data on the shutdown pipe: HandleKill runs
\* ServiceShutdown and returns FALSE, which removes the watch.  The watch
\* has G_PRIORITY_HIGH_IDLE and is dispatched before the idle sources.
HandleKill ==
  /\ daemon = "running"
  /\ kill_watch
  /\ shutdown_pipe # << >>
  /\ kill_watch' = FALSE
  /\ shutdown_runs' = shutdown_runs + 1
  /\ daemon' = Shutdown.daemon
  /\ last' = [op |-> "HandleKill", pre |-> SignalPre,
              signals |-> Shutdown.signals]
  /\ UNCHANGED <<implVars, policyVars, logged_in_file, childVars, svcVars,
                 key_file, key_persist_pending, wipeVars, storeVars, user_policy_, livenessVars,
                 sig_disposition, g_shutdown_pipe_write_fd, shutdown_pipe,
                 idle_shutdowns, stop_requests>>

\* The main loop has nothing of higher priority ready and dispatches the
\* idle sources StopSession queued: each runs ServiceShutdown and is removed.
DispatchIdleShutdowns ==
  /\ daemon = "running"
  /\ ~(kill_watch /\ shutdown_pipe # << >>)
  /\ idle_shutdowns > 0
  /\ idle_shutdowns' = 0
  /\ shutdown_runs' = shutdown_runs + idle_shutdowns
  /\ daemon' = Shutdown.daemon
  /\ last' = [op |-> "DispatchIdleShutdowns", pre |-> SignalPre,
              dispatched |-> idle_shutdowns, signals |-> Shutdown.signals]
  /\ UNCHANGED <<implVars, policyVars, logged_in_file, childVars, svcVars,
                 key_file, key_persist_pending, wipeVars, storeVars, user_policy_, livenessVars,
                 sig_disposition, g_shutdown_pipe_write_fd, shutdown_pipe,
                 kill_watch, stop_requests>>

NextSignals ==
  \/ Run
  \/ DeliverSignal
  \/ QueueStopSession
  \/ HandleKill
  \/ DispatchIdleShutdowns

\* The daemon runs its children.
InitSignals ==
  /\ InitSupervisor
  /\ ~file_exists

SpecSignals == InitSignals /\ [][NextSignals]_vars

(***************************************************************************)
(* The owner key store (policy_key.cc), one operation at a time.           *)
(***************************************************************************)
\* Bytes that are not a public key blob.
KCorrupt == <<9, 9>>

\* NssUtil::CheckPublicKeyBlob: the blob decodes as a public key.
CheckPublicKeyBlob(blob) == blob \in {K1, K2}

KeyFileInputs == {NoKeyFile, KeyFileOf(K1), KeyFileOf(KCorrupt)}
KeyInputs == {NoKey, K1, K2}
SignatureInputs == {K1, K2, BadSig}

\* What reading the key file can meet.
DiskEnv == {"ok", "too_large", "short_read"}

\* PopulateFromDiskIfPossible as a function of the file and of what reading
\* it meets: the key it leaves and what it returns.
PopulateFromDiskIfPossibleCall(key, file, env) ==
  IF ~file.exists THEN [ok |-> TRUE, key |-> key, checked |-> TRUE]
  ELSE IF env = "too_large" THEN [ok |-> FALSE, key |-> key, checked |-> TRUE]
  ELSE IF env = "short_read" THEN [ok |-> FALSE, key |-> << >>, checked |-> TRUE]
  ELSE IF ~CheckPublicKeyBlob(file.content)
  THEN [ok |-> FALSE, key |-> file.content, checked |-> TRUE]
  ELSE [ok |-> TRUE, key |-> file.content, checked |-> TRUE]

\* A key pair handed to PopulateFromKeypair: NULL, one whose public key
\* cannot be exported, or one with a public key.
NullPair == [pair |-> "NULL", public |-> << >>]
KeypairInputs ==
  {NullPair, [pair |-> "unexportable", public |-> K2],
   [pair |-> "ok", public |-> K1], [pair |-> "ok", public |-> K2]}

PopulateFromKeypair(key, replaced, checked, pair) ==
  IF pair.pair = "ok"
  THEN PopulateFromBuffer(key, replaced, checked, pair.public)
  ELSE [ok |-> FALSE, key |-> key, replaced |-> replaced]

\* What writing or removing the key file can meet.
PersistEnv == {"ok", "fails"}

PolicyKeyPersistCall_Overwrites(key, replaced, file, env) ==
  IF key = << >>
  THEN [ok |-> env = "ok", file |-> IF env = "ok" THEN NoKeyFile ELSE file]
  ELSE IF env = "fails" THEN [ok |-> FALSE, file |-> file]
  ELSE [ok |-> TRUE, file |-> KeyFileOf(key)]

\* PolicyKey::Persist: refused when the file exists and the key was not
\* replaced; an empty key removes the file; otherwise the key is written
\* atomically.
PolicyKeyPersistCall(key, replaced, file, env) ==
  IF ~replaced /\ file.exists THEN [ok |-> FALSE, file |-> file]
  ELSE IF key = << >>
  THEN [ok |-> env = "ok", file |-> IF env = "ok" THEN NoKeyFile ELSE file]
  ELSE IF env = "fails" THEN [ok |-> FALSE, file |-> file]
  ELSE [ok |-> TRUE, file |-> KeyFileOf(key)]

\* The key store as an operation finds it.
KeyPre ==
  [key |-> key_, checked |-> have_checked_disk_, replaced |-> have_replaced_,
   file |-> key_file]

\* The daemon has not given up on the key store.
KeyStoreInUse == daemon # "aborted"

keyStoreRest ==
  <<implVars, policy, mitigating_, nss_keys, keygen_jobs, logged_in_file,
    childVars, svcVars, wipeVars, policy_file, serial_recovery_flag_file,
    settings_, persist_pending, user_policy_, livenessVars, signalVars,
    key_persist_pending>>

\* The daemon loads the key at start-up, once; it does not go on when the
\* load fails.
PopulateFromDiskIfPossible ==
  /\ KeyStoreInUse
  /\ ~have_checked_disk_
  /\ \E env \in DiskEnv :
     \E r \in {PopulateFromDiskIfPossibleCall(key_, key_file, env)} :
       /\ key_' = r.key
       /\ have_checked_disk_' = r.checked
       /\ daemon' = IF r.ok THEN daemon ELSE "aborted"
       /\ last' = [op |-> "PopulateFromDiskIfPossible", pre |-> KeyPre,
                   env |-> env, ok |-> r.ok]
  /\ UNCHANGED <<keyStoreRest, have_replaced_, key_file>>

PolicyKeyPopulateFromBuffer ==
  /\ KeyStoreInUse
  /\ \E public_key_der \in KeyInputs :
     \E r \in {PopulateFromBuffer(key_, have_replaced_, have_checked_disk_,
                                  public_key_der)} :
       /\ key_' = r.key
       /\ have_replaced_' = r.replaced
       /\ last' = [op |-> "PopulateFromBuffer", pre |-> KeyPre,
                   public_key_der |-> public_key_der, ok |-> r.ok]
  /\ UNCHANGED <<keyStoreRest, have_checked_disk_, key_file, daemon>>

PolicyKeyPopulateFromKeypair ==
  /\ KeyStoreInUse
  /\ \E pair \in KeypairInputs :
     \E r \in {PopulateFromKeypair(key_, have_replaced_, have_checked_disk_,
                                   pair)} :
       /\ key_' = r.key
       /\ have_replaced_' = r.replaced
       /\ last' = [op |-> "PopulateFromKeypair", pre |-> KeyPre,
                   pair |-> pair, ok |-> r.ok]
  /\ UNCHANGED <<keyStoreRest, have_checked_disk_, key_file, daemon>>

PolicyKeyRotate ==
  /\ KeyStoreInUse
  /\ \E public_key_der \in KeyInputs, signature \in SignatureInputs :
     \E r \in {Rotate(key_, have_replaced_, public_key_der, signature)} :
       /\ key_' = r.key
       /\ have_replaced_' = r.replaced
       /\ last' = [op |-> "Rotate", pre |-> KeyPre,
                   public_key_der |-> public_key_der,
                   signature |-> signature, ok |-> r.ok]
  /\ UNCHANGED <<keyStoreRest, have_checked_disk_, key_file, daemon>>

\* ClobberCompromisedKey CHECKs that the disk was checked and a key is loaded.
PolicyKeyClobberCompromisedKey ==
  /\ KeyStoreInUse
  /\ have_checked_disk_
  /\ key_ # NoKey
  /\ \E public_key_der \in KeyInputs :
     \E r \in {ClobberCompromisedKey(key_, have_replaced_, public_key_der)} :
       /\ key_' = r.key
       /\ have_replaced_' = r.replaced
       /\ last' = [op |-> "ClobberCompromisedKey", pre |-> KeyPre,
                   public_key_der |-> public_key_der, ok |-> r.ok]
  /\ UNCHANGED <<keyStoreRest, have_checked_disk_, key_file, daemon>>

\* Persist CHECKs that the disk was checked.
PolicyKeyPersist ==
  /\ KeyStoreInUse
  /\ have_checked_disk_
  /\ \E env \in PersistEnv :
     \E r \in {PolicyKeyPersistCall(key_, have_replaced_, key_file, env)} :
       /\ key_file' = r.file
       /\ last' = [op |-> "Persist", pre |-> KeyPre, env |-> env, ok |-> r.ok]
  /\ UNCHANGED <<keyStoreRest, key_, have_checked_disk_, have_replaced_, daemon>>

NextKey ==
  \/ PopulateFromDiskIfPossible
  \/ PolicyKeyPopulateFromBuffer
  \/ PolicyKeyPopulateFromKeypair
  \/ PolicyKeyRotate
  \/ PolicyKeyClobberCompromisedKey
  \/ PolicyKeyPersist

\* PolicyKey::PolicyKey: nothing loaded, nothing checked, nothing replaced.
InitKey ==
  /\ InitConstructed
  /\ ~file_exists
  /\ ~exit_on_child_done_
  /\ key_file \in KeyFileInputs

SpecKey == InitKey /\ [][NextKey]_vars

(***************************************************************************)
(* The owner check of a login, one call at a time.                         *)
(***************************************************************************)
OwnerLoginUsers == {Alice, Bob}

\* CheckAndHandleOwnerLogin(current_user, slot, &is_owner, &error), with
\* whether signing and forking the key generator succeed.
OwnerLogin ==
  /\ Serving
  /\ Len(keygen_jobs) < MaxKeygenJobs
  /\ \E current_user \in OwnerLoginUsers, sign_ok \in BOOLEAN, fork_ok \in BOOLEAN :
     \E r \in {CheckAndHandleOwnerLogin(current_user, sign_ok, fork_ok)} :
       /\ policy' = r.policy
       /\ mitigating_' = r.mitigating
       /\ keygen_jobs' = keygen_jobs \o r.jobs
       /\ last' = [op |-> "CheckAndHandleOwnerLogin", pre |-> Pre,
                   held |-> nss_keys[current_user],
                   current_user |-> current_user, sign_ok |-> sign_ok,
                   fork_ok |-> fork_ok, ok |-> r.ok, is_owner |-> r.is_owner,
                   reported |-> r.reported,
                   mitigate_calls |-> r.mitigate_calls,
                   wrote |-> r.wrote,
                   prev |-> IF last.op = "CheckAndHandleOwnerLogin"
                            THEN [any |-> TRUE, ok |-> last.ok,
                                  current_user |-> last.current_user]
                            ELSE [any |-> FALSE]]
  /\ UNCHANGED <<implVars, key_, have_checked_disk_, nss_keys, logged_in_file,
                 childVars, svcVars, daemon, extVars>>

NextOwnerLogin ==
  \/ OwnerLogin

SpecOwnerLogin == Init /\ [][NextOwnerLogin]_vars

(***************************************************************************)
(* The owner's settings: the owner stores device policies whose settings   *)
(* differ, and logs in.                                                    *)
(***************************************************************************)
GuestModeEnabled == <<"guest_mode_enabled">>

\* A device policy signed with K1 that carries the given settings.
SettingsEnvelope(username, whitelist, allow, other) ==
  [Envelope(FALSE, FALSE, K1, NoKey, NoKey) EXCEPT
     !.username = username, !.whitelist = whitelist,
     !.allow_new_users = allow, !.other_settings = other]

\* A policy of another type carries no device settings.
OtherTypeEnvelope ==
  [SettingsEnvelope(Bob, <<>>, "unset", <<>>) EXCEPT !.policy_type_ok = FALSE]

SettingsBlobInputs ==
  {SerializeToString(SettingsEnvelope(username, whitelist, allow, other)) :
     username \in {Alice, Bob},
     whitelist \in {<<>>, <<Alice>>, <<Bob>>},
     allow \in {"unset", "false"},
     other \in {<<>>, GuestModeEnabled}} \cup
  {SerializeToString(OtherTypeEnvelope)}

StoreOwnerSettings == StorePolicyFrom(SettingsBlobInputs)

NextOwnerProperties ==
  \/ StoreOwnerSettings
  \/ OwnerLogin

SpecOwnerProperties == Init /\ [][NextOwnerProperties]_vars

(***************************************************************************)
(* The generated owner key: the key generator, the import of its key and   *)
(* the Persist tasks.                                                      *)
(***************************************************************************)
\* The key store and the policy as they were when nothing was installed.
KeyNotInstalled(how) ==
  [ok |-> FALSE, how |-> how, key |-> key_, replaced |-> have_replaced_,
   policy |-> policy, persist_key |-> FALSE, persist_policy |-> FALSE,
   signals |-> << >>]

\* The end of ValidateAndStoreOwnerKey, with the key installed as k and the
\* policy record pol: StoreOwnerProperties, then PersistKey and
\* PersistPolicy when it succeeded.
InstallOwnerProperties(k, how, pol, current_user, signing_key, sign_ok) ==
  LET stored == StoreOwnerPropertiesWith(k.key, pol, current_user,
                                         signing_key, sign_ok)
  IN [ok |-> TRUE, how |-> how, key |-> k.key, replaced |-> k.replaced,
      policy |-> stored.policy, persist_key |-> stored.ok,
      persist_policy |-> stored.ok, signals |-> << >>]

ValidateAndStoreOwnerKey_KeepsPolicy(current_user, pub_key, slot, sign_ok) ==
  LET signing_key == IF pub_key # NoKey /\ pub_key \in slot THEN pub_key
                     ELSE NoKey
      populated == PopulateFromBuffer(key_, have_replaced_,
                                      have_checked_disk_, pub_key)
      clobbered == ClobberCompromisedKey(key_, have_replaced_, pub_key)
  IN IF signing_key = NoKey THEN KeyNotInstalled("no_private_key")
     ELSE IF Mitigating
     THEN IF IsPopulated
          THEN InstallOwnerProperties(clobbered, "clobbered", policy,
                                      current_user, signing_key, sign_ok)
          ELSE IF ~populated.ok THEN KeyNotInstalled("populate_failed")
          ELSE InstallOwnerProperties(populated, "populated", policy,
                                      current_user, signing_key, sign_ok)
     ELSE IF ~populated.ok THEN KeyNotInstalled("populate_failed")
     ELSE InstallOwnerProperties(populated, "populated", policy,
                                 current_user, signing_key, sign_ok)

\* ValidateAndStoreOwnerKey(current_user, buf, slot); slot: the keys whose
\* private half the slot holds.  It emits no signal itself.
ValidateAndStoreOwnerKey(current_user, pub_key, slot, sign_ok) ==
  LET signing_key == IF pub_key # NoKey /\ pub_key \in slot THEN pub_key
                     ELSE NoKey
      populated == PopulateFromBuffer(key_, have_replaced_,
                                      have_checked_disk_, pub_key)
      clobbered == ClobberCompromisedKey(key_, have_replaced_, pub_key)
  IN IF signing_key = NoKey THEN KeyNotInstalled("no_private_key")
     ELSE IF Mitigating
     THEN IF IsPopulated
          THEN InstallOwnerProperties(clobbered, "clobbered", policy,
                                      current_user, signing_key, sign_ok)
          ELSE IF ~populated.ok THEN KeyNotInstalled("populate_failed")
          ELSE InstallOwnerProperties(populated, "populated", policy,
                                      current_user, signing_key, sign_ok)
     ELSE IF ~populated.ok THEN KeyNotInstalled("populate_failed")
     ELSE InstallOwnerProperties(populated, "populated", EmptyPolicy,
                                 current_user, signing_key, sign_ok)

\* The key a key generator makes.
GeneratedKey == K2

\* keygen::GenerateKey, in the key generator's process: a key pair is
\* generated in the user's NSS database.
GenerateKey ==
  /\ Serving
  /\ \E i \in 1..Len(keygen_jobs) :
       /\ GeneratedKey \notin nss_keys[keygen_jobs[i].user]
       /\ nss_keys' = [nss_keys EXCEPT ![keygen_jobs[i].user] = @ \cup {GeneratedKey}]
       /\ last' = [op |-> "GenerateKey", user |-> keygen_jobs[i].user]
  /\ UNCHANGED <<implVars, policy, key_, have_checked_disk_, mitigating_,
                 keygen_jobs, logged_in_file, childVars, svcVars, daemon,
                 extVars>>

\* What ValidateAndStoreOwnerKey may write, as it is when the key arrives.
ImportPre ==
  [key |-> key_, replaced |-> have_replaced_, checked |-> have_checked_disk_,
   policy |-> policy, mitigating |-> mitigating_, nss |-> nss_keys,
   key_persist_pending |-> key_persist_pending,
   persist_pending |-> persist_pending, sessions |-> user_sessions_]

\* ImportValidateAndStoreGeneratedKey(username, temp_key_file) for a user
\* with a session: the file holds key (nothing when it could not be read);
\* the result of ValidateAndStoreOwnerKey is not looked at.
ImportValidateAndStoreGeneratedKey ==
  /\ Serving
  /\ \E username \in DOMAIN user_sessions_, key \in KeyInputs,
        sign_ok \in BOOLEAN :
     \E r \in {ValidateAndStoreOwnerKey(username, key, nss_keys[username],
                                        sign_ok)} :
       /\ key_' = r.key
       /\ have_replaced_' = r.replaced
       /\ policy' = r.policy
       /\ key_persist_pending' = (key_persist_pending \/ r.persist_key)
       /\ persist_pending' = (persist_pending \/ r.persist_policy)
       /\ last' = [op |-> "ImportValidateAndStoreGeneratedKey",
                   username |-> username, key |-> key, sign_ok |-> sign_ok,
                   pre |-> ImportPre, ok |-> r.ok, how |-> r.how,
                   signals |-> r.signals]
  /\ UNCHANGED <<implVars, have_checked_disk_, mitigating_, nss_keys,
                 keygen_jobs, logged_in_file, childVars, svcVars, daemon,
                 wipeVars, policy_file, serial_recovery_flag_file, settings_,
                 user_policy_, livenessVars, signalVars, key_file>>

\* The queued key Persist runs: the key is written and OnKeyPersisted emits
\* OwnerKeySet with the outcome.
PersistKey ==
  /\ daemon # "stopped"
  /\ key_persist_pending
  /\ \E env \in PersistEnv :
     \E r \in {PolicyKeyPersistCall(key_, have_replaced_, key_file, env)} :
       /\ key_file' = r.file
       /\ key_persist_pending' = FALSE
       /\ last' = [op |-> "PersistKey", ok |-> r.ok,
                   signals |-> <<"OwnerKeySet", r.ok>>]
  /\ UNCHANGED <<implVars, policyVars, logged_in_file, childVars, svcVars,
                 daemon, wipeVars, storeVars, user_policy_, livenessVars,
                 signalVars>>

OwnerKeyStartSession ==
  StartSessionWith(UserPolicyEmailInputs, PolicyStartEnv)

NextOwnerKey ==
  \/ OwnerKeyStartSession
  \/ GenerateKey
  \/ ImportValidateAndStoreGeneratedKey
  \/ PersistKey
  \/ PersistPolicy

SpecOwnerKey == Init /\ [][NextOwnerKey]_vars

(***************************************************************************)
(* Key generation jobs from start to end: a StartSession starts them, and  *)
(* the exit of a job is handled on the main loop.  In this specification   *)
(* keygen_jobs holds the jobs that have not been handled yet.              *)
(***************************************************************************)
KeygenEmailInputs == {Alice, Bob, kGuestUserName}

KeygenStartSession == StartSessionWith(KeygenEmailInputs, StartEnv)

\* keygen_jobs without its i-th job.
WithoutJob(i) ==
  SubSeq(keygen_jobs, 1, i - 1) \o SubSeq(keygen_jobs, i + 1, Len(keygen_jobs))

\* ImportValidateAndStoreGeneratedKey(username, temp_key_file), the file
\* holding GeneratedKey and slot being what the user's NSS database holds
\* by now.  user_sessions_[username] adds an empty entry for a user without
\* a session and ->slot then reads through a null pointer: the daemon
\* crashes, or (survives) the read yields a slot that holds nothing.
ImportGeneratedKey(username, slot, sign_ok, survives) ==
  LET found == username \in DOMAIN user_sessions_
      sessions == IF found THEN user_sessions_
                  ELSE [k \in DOMAIN user_sessions_ \cup {username} |->
                          IF k = username THEN NullSession
                          ELSE user_sessions_[k]]
      r == ValidateAndStoreOwnerKey(username, GeneratedKey,
                                    IF found THEN slot ELSE {}, sign_ok)
  IN IF ~found /\ ~survives
     THEN [sessions |-> sessions, null_read |-> TRUE, daemon |-> "crashed",
           key |-> key_, replaced |-> have_replaced_, policy |-> policy,
           persist_key |-> FALSE, persist_policy |-> FALSE, ok |-> FALSE]
     ELSE [sessions |-> sessions, null_read |-> ~found, daemon |-> daemon,
           key |-> r.key, replaced |-> r.replaced, policy |-> r.policy,
           persist_key |-> r.persist_key, persist_policy |-> r.persist_policy,
           ok |-> r.ok]

\* A key generator exits and its exit is handled: a generator that failed
\* is reported with OwnerKeySet(false); the key of one that succeeded is
\* imported.
HandleKeygenExit ==
  /\ Serving
  /\ \E i \in 1..Len(keygen_jobs), exit_ok \in BOOLEAN :
       LET username == keygen_jobs[i].user
       IN /\ keygen_jobs' = WithoutJob(i)
          /\ IF ~exit_ok
             THEN /\ last' = [op |-> "HandleKeygenExit", username |-> username,
                              via |-> keygen_jobs[i].via, exit_ok |-> FALSE,
                              pre |-> [sessions |-> user_sessions_,
                                       jobs |-> keygen_jobs],
                              imported |-> FALSE, null_read |-> FALSE,
                              signals |-> <<"OwnerKeySet", FALSE>>]
                  /\ UNCHANGED <<user_sessions_, daemon, key_, have_replaced_,
                                 policy, key_persist_pending, persist_pending,
                                 nss_keys>>
             ELSE \E sign_ok \in BOOLEAN, survives \in BOOLEAN :
                  \E r \in {ImportGeneratedKey(
                               username, nss_keys[username] \cup {GeneratedKey},
                               sign_ok, survives)} :
                    /\ nss_keys' = [nss_keys EXCEPT
                                      ![username] = @ \cup {GeneratedKey}]
                    /\ user_sessions_' = r.sessions
                    /\ daemon' = r.daemon
                    /\ key_' = r.key
                    /\ have_replaced_' = r.replaced
                    /\ policy' = r.policy
                    /\ key_persist_pending' =
                         (key_persist_pending \/ r.persist_key)
                    /\ persist_pending' = (persist_pending \/ r.persist_policy)
                    /\ last' = [op |-> "HandleKeygenExit",
                                username |-> username,
                                via |-> keygen_jobs[i].via, exit_ok |-> TRUE,
                                pre |-> [sessions |-> user_sessions_,
                                         jobs |-> keygen_jobs],
                                imported |-> TRUE, null_read |-> r.null_read,
                                signals |-> <<>>]
  /\ UNCHANGED <<session_started_, session_stopping_, screen_locked_,
                 have_checked_disk_, mitigating_, logged_in_file, childVars,
                 svcVars, wipeVars, policy_file, serial_recovery_flag_file,
                 settings_, user_policy_, livenessVars, signalVars, key_file>>

NextKeygen ==
  \/ KeygenStartSession
  \/ HandleKeygenExit

SpecKeygen == Init /\ [][NextKeygen]_vars

(***************************************************************************)
(* The properties.                                                         *)
(***************************************************************************)
IsStartSession == last.op = "StartSession"

\* C1: a StartSession for a name whose lowercased form already names a
\* session fails with SessionExists and leaves the session table as it was;
\* no two sessions of the table have the same lowercased name.
C1_NoDuplicateSession ==
  /\ (IsStartSession /\
      \E k \in DOMAIN last.pre.sessions :
        StringToLowerASCII(k) = StringToLowerASCII(last.email_address))
       => /\ ~last.start.done
          /\ last.start.error = "SessionExists"
          /\ user_sessions_ = last.pre.sessions
  /\ \A k1, k2 \in DOMAIN user_sessions_ :
       StringToLowerASCII(k1) = StringToLowerASCII(k2) => k1 = k2
  /\ \A k \in DOMAIN user_sessions_ :
       StringToLowerASCII(k) = k /\ user_sessions_[k].username = k

C1_Witness ==
  /\ IsStartSession
  /\ last.email_address = AliceUpper
  /\ Alice \in DOMAIN last.pre.sessions
  /\ last.start.error = "SessionExists"
  /\ Cardinality(DOMAIN user_sessions_) = 2

\* C2: a StartSession that fails adds no session, leaves the session state
\* as it was, emits no SessionStateChanged(started), starts no key generation
\* and does not write the logged-in marker.
C2_FailedStartHasNoEffect ==
  (IsStartSession /\ ~last.start.done)
    => /\ user_sessions_ = last.pre.sessions
       /\ session_started_ = last.pre.started
       /\ session_stopping_ = last.pre.stopping
       /\ last.start.signals = <<>>
       /\ keygen_jobs = last.pre.jobs
       /\ ~last.start.wrote_marker
       /\ logged_in_file = last.pre.logged_in

\* C3: when StartSession fails at the start-user-session emission after the
\* owner check has run, the policy record held by the policy store is the
\* one held before the call.
C3_FailedStartKeepsPolicy ==
  (IsStartSession /\ ~last.start.done /\ last.start.error = "EmitFailed")
    => policy = last.pre.policy

\* The state RetrieveSessionState reports for the given fields.
ReportedState(started, stopping) ==
  IF ~started THEN "stopped" ELSE IF stopping THEN "stopping" ELSE "started"

StartedASession ==
  /\ last.op \in {"StartSession", "RestartJob", "RestartJobWithAuth"}
  /\ last.op = "StartSession" \/ last.guest # "not called"
  /\ last.start.done

IncognitoName(k) == k = <<"$","g","u","e","s","t">> \/
                    k = <<"d","e","m","o","u","s","e","r","@">>

\* The user of the latest StartSession is the first real user: not incognito,
\* and every session recorded before the call was.
WasFirstRealUser ==
  /\ ~IncognitoName(StringToLowerASCII(last.email_address))
  /\ \A k \in DOMAIN last.pre.sessions : IncognitoName(k)

JobsStartedVia(via) ==
  {i \in 1..Len(last.start.jobs) : last.start.jobs[i].via = via}

\* C5 as stated: a successful StartSession starts key generation exactly when
\* the owner key is missing, no mitigation is in progress and the user is the
\* first real user.
C5_KeygenIffFirstRealUser ==
  (IsStartSession /\ last.start.done)
    => (last.start.jobs # <<>>
          <=> (last.pre.key = NoKey /\ ~last.pre.mitigating /\ WasFirstRealUser))

\* C5, amended: a successful StartSession runs the key generator to take
\* ownership exactly when the owner key is missing, no mitigation is in
\* progress after the owner check, and the user is the first real user; the
\* owner check starts key generation as mitigation exactly when the policy
\* names the user as owner and the user does not hold the private owner key.
C5_KeygenOnStart ==
  (IsStartSession /\ last.start.done)
    => /\ JobsStartedVia("take_ownership") # {}
            <=> (have_checked_disk_ /\ key_ = NoKey /\ ~mitigating_ /\
                 WasFirstRealUser)
       /\ JobsStartedVia("mitigate") # {}
            <=> (/\ policy.has_policy_data /\ ~policy.request_token
                 /\ policy.username = StringToLowerASCII(last.email_address)
                 /\ (key_ = NoKey \/
                     key_ \notin nss_keys[StringToLowerASCII(last.email_address)]))
       /\ Len(last.start.jobs) <= 1
       /\ \A i \in 1..Len(last.start.jobs) :
            last.start.jobs[i].user = StringToLowerASCII(last.email_address)
       /\ keygen_jobs = last.pre.jobs \o last.start.jobs

C5_Witness ==
  /\ IsStartSession
  /\ last.start.done
  /\ last.start.jobs = <<[user |-> Alice, via |-> "take_ownership"]>>
  /\ last.pre.sessions # << >>

\* The latest child watch was for the exit of the pid recorded for the
\* browser, the first child job.
BrowserExited ==
  /\ last.op = "HandleChildExit"
  /\ last.pid = last.pre.pids[1]

ChildNotRerun ==
  /\ next_pid = last.pre.next_pid
  /\ children = last.pre.children \ {last.pid}

ChildRerun ==
  /\ child_pids_[1] = last.pre.next_pid
  /\ child_pids_[1] # last.pid
  /\ child_pids_[1] \in children
  /\ last.pid \notin children
  /\ next_pid = last.pre.next_pid + 1

ShutdownInitiated == daemon \in {"shutdown_scheduled", "stopped"}

C7_LockScreen ==
  last.op = "LockScreen" =>
    IF ~session_started_ \/
       \A k \in DOMAIN user_sessions_ : user_sessions_[k].is_incognito
    THEN /\ ~last.ok
         /\ screen_locked_ = last.pre.locked
         /\ last.signals = <<>>
    ELSE /\ last.ok
         /\ screen_locked_
         /\ last.signals = IF last.pre.locked THEN <<>>
                           ELSE <<"LockScreenRequested">>

C7_Witness ==
  /\ last.op = "LockScreen"
  /\ last.ok
  /\ last.pre.locked
  /\ \E k \in DOMAIN user_sessions_ : user_sessions_[k].is_incognito

\* C8: after HandleLockScreenShown the screen-locked state is true and
\* ScreenIsLocked was broadcast; after HandleLockScreenDismissed it is false
\* and ScreenIsUnlocked was broadcast.
C8_LockScreenHandlers ==
  /\ last.op = "HandleLockScreenShown"
       => screen_locked_ /\ last.signals = <<"ScreenIsLocked">>
  /\ last.op = "HandleLockScreenDismissed"
       => ~screen_locked_ /\ last.signals = <<"ScreenIsUnlocked">>

\* The errors of StartSession that the environment causes.
EnvironmentErrors == {"PolicyInitFail", "NoUserNssdb", "IllegalPubKey", "EmitFailed"}

\* C9: RestartJobWithAuth with the process cookie, the pid of the running
\* browser and arguments that parse kills the old browser with SIGKILL, runs
\* the browser again with the parsed arguments, starts a guest session and
\* returns done = true, whenever it is called.
C9_RestartJobWithAuth ==
  (/\ last.op = "RestartJobWithAuth"
   /\ last.cookie = cookie_
   /\ last.pid = last.pre.pids[1]
   /\ last.error \notin {"ShellParse"} \cup EnvironmentErrors)
    => /\ last.killed = <<last.pid, "SIGKILL">>
       /\ child_pids_[1] \notin {last.pid, NoPid}
       /\ job_args[1] = last.argv
       /\ kGuestUserName \in DOMAIN user_sessions_
       /\ last.guest = "started"
       /\ last.done = TRUE

\* C10: RestartJobWithAuth with a cookie that differs from the process
\* cookie fails with IllegalService, kills and runs nothing and starts no
\* guest session.
C10_WrongCookieRejected ==
  (last.op = "RestartJobWithAuth" /\ last.cookie # cookie_)
    => /\ last.error = "IllegalService"
       /\ ~last.ok
       /\ last.killed = <<>>
       /\ ~last.relaunched
       /\ last.guest = "not called"
       /\ child_pids_ = last.pre.pids
       /\ user_sessions_ = last.pre.sessions

\* C11: RestartJob goes ahead only for the pid of a supervised child that is
\* the browser; for any other pid it fails with UnknownPid, signals no
\* process, relaunches nothing, changes no child record and starts no
\* session.
PidWasSupervisedBrowser ==
  /\ last.pid \in last.pre.children
  /\ \E i \in 1..Len(child_jobs_) :
       last.pre.pids[i] = last.pid /\ child_jobs_[i] = "chrome"

C11_RestartJobUnknownPid ==
  (last.op = "ServiceRestartJob" /\ ~PidWasSupervisedBrowser) =>
    /\ ~last.ok
    /\ last.error = "UnknownPid"
    /\ last.killed = <<>>
    /\ ~last.relaunched
    /\ child_pids_ = last.pre.pids
    /\ children = last.pre.children
    /\ job_args = last.pre.args
    /\ session_started_ = last.pre.started

\* C12: once a StartSession has succeeded, every StartDeviceWipe fails with
\* AlreadySession, writes no reset file and does not ask the power manager
\* to restart; when the logged-in marker is absent StartDeviceWipe writes
\* "fast safe" to the reset file, requests a restart and returns done = true.
IsStartDeviceWipe == last.op = "StartDeviceWipe"

IsStorePolicy == last.op = "StorePolicy"

StoredEnvelope == ParseFromArray(last.policy_blob).policy

C13_StorePolicyFlags ==
  /\ (IsStorePolicy /\ ~last.pre.started) =>
       last.flags = {"KEY_ROTATE", "KEY_INSTALL_NEW", "KEY_CLOBBER"}
  /\ (IsStorePolicy /\ last.pre.started) =>
       /\ last.flags = {"KEY_ROTATE"}
       /\ last.pre.key = NoKey => key_ = NoKey
       /\ key_ # last.pre.key =>
            /\ last.pre.key # NoKey
            /\ StoredEnvelope.new_public_key = key_
            /\ StoredEnvelope.new_key_signed_with = last.pre.key

C13_Witness ==
  /\ IsStorePolicy
  /\ last.pre.started
  /\ last.pre.key # NoKey
  /\ StoredEnvelope.new_public_key \notin {NoKey, last.pre.key}
  /\ StoredEnvelope.new_key_signed_with = NoKey
  /\ ~last.store.ok
  /\ key_ = last.pre.key

\* C14: RetrievePolicyForUser and StorePolicyForUser for a user without an
\* active session fail with the error kind SessionDoesNotExist and touch no
\* policy service; for a user with a session the request goes to the policy
\* service of that session.
IsUserPolicyRequest == last.op \in {"StorePolicyForUser", "RetrievePolicyForUser"}

RequestedUser == StringToLowerASCII(last.user_email)

C14_UserPolicyNeedsSession ==
  /\ (IsUserPolicyRequest /\ RequestedUser \notin DOMAIN last.pre.sessions) =>
       /\ ~last.ok
       /\ last.error = "SessionDoesNotExist"
       /\ user_policy_ = last.pre.services
       /\ policy = last.pre.policy
  /\ (IsUserPolicyRequest /\ RequestedUser \in DOMAIN last.pre.sessions) =>
       /\ last.service = RequestedUser
       /\ \A u \in Users \ {RequestedUser} : user_policy_[u] = last.pre.services[u]
       /\ policy = last.pre.policy

\* C15 (as stated): for every envelope E whose policy-data signature is
\* valid under the current key, Store(E) followed by Retrieve() returns
\* exactly E, whether or not the queued Persist has run.
IsRetrieveAfterStore == last.op = "RetrievePolicy" /\ last.after.any

\* The fields of the envelope handed to the latest Store, read off the blob.
StoredField(name) ==
  LET blob == last.after.policy_blob
  IN blob[CHOOSE i \in 1..Len(blob) : blob[i][1] = name][2]

StoredBlobIsWhole ==
  LET blob == last.after.policy_blob
  IN Len(blob) = Len(FieldNames) /\ \A i \in 1..Len(blob) : blob[i][1] = FieldNames[i]

SignedWithCurrentKey ==
  /\ StoredBlobIsWhole
  /\ last.after.pre.key # NoKey
  /\ StoredField("signed_with") = last.after.pre.key

SignatureRejected ==
  /\ IsStorePolicy
  /\ ParseFromArray(last.policy_blob).ok
  /\ ~(key_ # NoKey /\ StoredEnvelope.signed_with = key_)

C17_FailedStoreKeepsKey ==
  (IsStorePolicy /\ ~last.store.ok) =>
    /\ key_ = last.pre.key
    /\ have_replaced_ = last.pre.replaced

\* C18: the owner key is clobbered only while owner key loss mitigation is
\* in progress: when Mitigating() is false, a device policy Store that
\* carries KEY_CLOBBER and a new public key is rejected and leaves the key
\* as it was.
ClobberAttempted ==
  /\ IsStorePolicy
  /\ "KEY_CLOBBER" \in last.flags
  /\ ParseFromArray(last.policy_blob).ok
  /\ StoredEnvelope.new_public_key \notin {NoKey, last.pre.key}
  /\ last.pre.key # NoKey

C18_ClobberOnlyWhileMitigating ==
  (ClobberAttempted /\ ~last.pre.mitigating) =>
    /\ ~last.store.ok
    /\ key_ = last.pre.key

\* C19: the serial recovery flag file exists exactly when the policy file
\* is absent or empty, or the stored policy has an enrollment token and
\* valid-serial-number-missing set; checked whenever no Persist is queued.
RecoveryNeeded ==
  \/ ~policy_file.exists
  \/ policy_file.content = EmptyPolicy
  \/ policy.has_policy_data /\ policy.request_token /\ policy.serial_missing

C19_SerialRecoveryMarker ==
  ~persist_pending => (serial_recovery_flag_file <=> RecoveryNeeded)


(***************************************************************************)
(* C20: a check that does not abort emits LivenessRequested, marks a ping  *)
(* outstanding and stays scheduled; HandleLivenessConfirmed clears the     *)
(* mark; a ping is marked outstanding only while one is unanswered, and    *)
(* a check calls AbortBrowser only when the ping before it was never       *)
(* confirmed.                                                              *)
(***************************************************************************)
IsLivenessCheck == last.op = "CheckAndSendLivenessPing"

C20_LivenessPing ==
  /\ (IsLivenessCheck /\ ~last.tick.aborted) =>
       /\ last.tick.signals = <<kLivenessRequestedSignal>>
       /\ liveness_requests = last.pre.requests + 1
       /\ outstanding_liveness_ping_
       /\ liveness_check_
  /\ (IsLivenessCheck /\ last.tick.aborted) =>
       /\ last.pre.ping_unconfirmed
       /\ last.tick.signals = << >>
       /\ liveness_requests = last.pre.requests
  /\ last.op = "HandleLivenessConfirmed" => ~outstanding_liveness_ping_
  /\ last.op = "Start" => ~outstanding_liveness_ping_ /\ liveness_check_
  /\ outstanding_liveness_ping_ => ping_unconfirmed

\* With aborting enabled, a check follows a ping that was confirmed and
\* sends the next one.
C20_Witness ==
  /\ IsLivenessCheck
  /\ enable_aborting_
  /\ last.pre.requests >= 1
  /\ ~last.pre.ping_unconfirmed
  /\ ~last.tick.aborted
  /\ outstanding_liveness_ping_

(***************************************************************************)
(* C21: with aborting enabled, a check that finds the flag of the previous *)
(* ping still set calls AbortBrowser, emits no ping and leaves the checker *)
(* stopped; with aborting disabled no check calls AbortBrowser and every   *)
(* check emits a ping and stays scheduled.                                 *)
(***************************************************************************)
C21_AbortOnUnconfirmedPing ==
  IsLivenessCheck =>
    IF enable_aborting_ /\ last.pre.outstanding
    THEN /\ last.tick.aborted
         /\ last.tick.signals = << >>
         /\ liveness_requests = last.pre.requests
         /\ ~IsRunning
    ELSE /\ ~last.tick.aborted
         /\ last.tick.signals = <<kLivenessRequestedSignal>>
         /\ liveness_requests = last.pre.requests + 1
         /\ IsRunning

\* The second check without an answer, with aborting enabled.
C21_Witness ==
  /\ IsLivenessCheck
  /\ enable_aborting_
  /\ last.pre.outstanding
  /\ last.pre.requests = 1
  /\ last.tick.aborted
  /\ ~IsRunning

(***************************************************************************)
(* C22: once SIGHUP, SIGINT or SIGTERM was delivered and the daemon has    *)
(* ended, with at most one StopSession request served, Shutdown() has run  *)
(* exactly once; a handled signal is left with the default disposition and *)
(* a signal delivered with the default disposition ends the process.       *)
(***************************************************************************)
SignalDelivered == \E sig \in GracefulSignals : sig_disposition[sig] = "SIG_DFL"

DaemonEnded == daemon \in {"stopped", "killed", "aborted"}

IsDeliverSignal == last.op = "DeliverSignal"

SignalDispositions ==
  /\ (IsDeliverSignal /\ last.handled) =>
       /\ last.pre.disposition[last.sig] = "handler"
       /\ sig_disposition[last.sig] = "SIG_DFL"
       /\ \A sig \in GracefulSignals \ {last.sig} :
            sig_disposition[sig] = last.pre.disposition[sig]
  /\ (IsDeliverSignal /\ ~last.handled) =>
       /\ last.pre.disposition[last.sig] = "SIG_DFL"
       /\ daemon = "killed"
       /\ shutdown_runs = last.pre.runs

C22_ShutdownExactlyOnce ==
  /\ (SignalDelivered /\ DaemonEnded /\ stop_requests <= 1) => shutdown_runs = 1
  /\ SignalDispositions

(***************************************************************************)
(* C22, amended: with at most one StopSession request served, Shutdown()   *)
(* runs at most once, exactly once when the main loop has ended, and not   *)
(* at all when a signal ended the process before the main loop dispatched  *)
(* HandleKill; a handled signal writes its number to the pipe once and is  *)
(* left with the default disposition, and a signal delivered with the      *)
(* default disposition ends the process.                                   *)
(***************************************************************************)
C22_ShutdownAtMostOnce ==
  /\ stop_requests <= 1 => shutdown_runs <= 1
  /\ (daemon = "stopped" /\ stop_requests <= 1) => shutdown_runs = 1
  /\ daemon = "aborted" => shutdown_runs = 0
  /\ (IsDeliverSignal /\ last.handled /\ last.pre.fd # -1) =>
       shutdown_pipe = Append(last.pre.pipe, last.sig)
  /\ last.op = "HandleKill" =>
       /\ shutdown_runs = last.pre.runs + 1
       /\ ~kill_watch
       /\ daemon = "stopped"
  /\ SignalDispositions

\* Two different signals and a StopSession request, then the main loop
\* has dispatched HandleKill.
C22_Witness ==
  /\ last.op = "HandleKill"
  /\ Len(shutdown_pipe) = 2
  /\ stop_requests = 1
  /\ idle_shutdowns = 1
  /\ shutdown_runs = 1
  /\ daemon = "stopped"

(***************************************************************************)
(* C23: in every state of the child supervisor, a child record holds a pid *)
(* if and only if that pid is a running child of the daemon.               *)
(***************************************************************************)
C23_PidIffChildRunning ==
  \A i \in 1..Len(child_jobs_) :
    (child_pids_[i] # NoPid) <=> (child_pids_[i] \in children)

(***************************************************************************)
(* C24: a populated key store changes its key only in a Rotate whose       *)
(* signature was made by the current key, or in ClobberCompromisedKey;     *)
(* PopulateFromBuffer and PopulateFromKeypair fail on a populated store    *)
(* and keep its key; a Rotate with a signature the current key did not     *)
(* make, or on an empty store, fails and keeps key and has-replaced flag.  *)
(***************************************************************************)
IsKeyOp ==
  last.op \in {"PopulateFromDiskIfPossible", "PopulateFromBuffer",
               "PopulateFromKeypair", "Rotate", "ClobberCompromisedKey",
               "Persist"}

SignedByCurrentKey == last.pre.key # NoKey /\ last.signature = last.pre.key

C24_KeyReplacedOnlyByRotateOrClobber ==
  /\ (IsKeyOp /\ last.pre.key # NoKey /\ key_ # last.pre.key) =>
       \/ /\ last.op = "Rotate"
          /\ SignedByCurrentKey
          /\ key_ = last.public_key_der
          /\ have_replaced_
       \/ /\ last.op = "ClobberCompromisedKey"
          /\ key_ = last.public_key_der
          /\ have_replaced_
  /\ (last.op \in {"PopulateFromBuffer", "PopulateFromKeypair"}
        /\ last.pre.key # NoKey) =>
       ~last.ok /\ key_ = last.pre.key
  /\ (last.op = "Rotate" /\ ~SignedByCurrentKey) =>
       /\ ~last.ok
       /\ key_ = last.pre.key
       /\ have_replaced_ = last.pre.replaced
  /\ (last.op = "Rotate" /\ SignedByCurrentKey) =>
       last.ok /\ key_ = last.public_key_der /\ have_replaced_

\* A rotation from K1 to K2 signed with K1.
C24_Witness ==
  /\ last.op = "Rotate"
  /\ last.pre.key = K1
  /\ last.signature = K1
  /\ key_ = K2
  /\ have_replaced_

(***************************************************************************)
(* C25: PopulateFromBuffer succeeds exactly when the disk has been checked *)
(* and the store is empty, and then holds the buffer; otherwise it fails   *)
(* and keeps the key; no operation clears the has-checked-disk flag.       *)
(***************************************************************************)
C25_PopulateFromBufferPrecondition ==
  /\ last.op = "PopulateFromBuffer" =>
       /\ last.ok <=> (last.pre.checked /\ last.pre.key = NoKey)
       /\ last.ok => key_ = last.public_key_der
       /\ ~last.ok => key_ = last.pre.key
       /\ have_replaced_ = last.pre.replaced
  /\ (IsKeyOp /\ last.pre.checked) => have_checked_disk_
  /\ last.op = "PopulateFromDiskIfPossible" => have_checked_disk_

\* A key offered before the disk was checked is refused.
C25_Witness ==
  /\ last.op = "PopulateFromBuffer"
  /\ ~last.pre.checked
  /\ last.public_key_der = K2
  /\ ~last.ok
  /\ key_ = NoKey

(***************************************************************************)
(* C26: Persist refuses, and leaves the key file as it is, when the file   *)
(* exists and the key was not replaced; it changes the file only when the  *)
(* key was replaced or the file did not exist, so a key that was not       *)
(* replaced is written at most once; no other operation of the key store   *)
(* touches the file.                                                       *)
(***************************************************************************)
IsKeyPersist == last.op = "Persist"

C26_PersistKeepsExistingFile ==
  /\ (IsKeyPersist /\ last.pre.file.exists /\ ~last.pre.replaced) =>
       ~last.ok /\ key_file = last.pre.file
  /\ (IsKeyPersist /\ last.ok /\ ~last.pre.replaced) =>
       /\ ~last.pre.file.exists
       /\ key_file = IF last.pre.key = NoKey THEN NoKeyFile
                     ELSE KeyFileOf(last.pre.key)
  /\ (IsKeyPersist /\ ~last.ok) => key_file = last.pre.file
  /\ (IsKeyPersist /\ last.ok /\ last.pre.key # NoKey) =>
       key_file = KeyFileOf(last.pre.key)
  /\ (IsKeyOp /\ ~IsKeyPersist) => key_file = last.pre.file
  /\ IsKeyPersist =>
       /\ key_ = last.pre.key
       /\ have_replaced_ = last.pre.replaced

\* The key that PopulateFromBuffer installed was written, and a second
\* Persist is refused.
C26_Witness ==
  /\ IsKeyPersist
  /\ last.pre.key = K2
  /\ ~last.pre.replaced
  /\ last.pre.file = KeyFileOf(K2)
  /\ last.env = "ok"
  /\ ~last.ok
  /\ key_file = KeyFileOf(K2)

(***************************************************************************)
(* C27: when CheckAndHandleOwnerLogin reports is_owner, it is true exactly *)
(* when the stored policy has no enrollment token and names the user; it   *)
(* calls Mitigate once when is_owner holds and the user's key store lacks  *)
(* the private owner key, and not otherwise; it fails exactly when         *)
(* StoreOwnerProperties fails or Mitigate fails.                           *)
(***************************************************************************)
IsOwnerLogin == last.op = "CheckAndHandleOwnerLogin"

\* The user's key store holds the private half of the owner key.
HoldsOwnerKey == last.pre.key # NoKey /\ last.pre.key \in last.held

PolicyNamesUser ==
  /\ policy.has_policy_data
  /\ ~policy.request_token
  /\ policy.username = last.current_user

\* StoreOwnerProperties has nothing to write: the policy before the call
\* names the user, lists the user and carries the current key.
NoChangesNeeded ==
  /\ last.pre.policy.has_policy_data
  /\ last.pre.policy.username = last.current_user
  /\ last.pre.policy.policy_type_ok
  /\ \E i \in 1..Len(last.pre.policy.whitelist) :
       last.pre.policy.whitelist[i] = last.current_user
  /\ last.pre.policy.new_public_key = last.pre.key

StoreOwnerPropertiesFailed == HoldsOwnerKey /\ ~NoChangesNeeded /\ ~last.sign_ok

MitigateExpected == ~StoreOwnerPropertiesFailed /\ PolicyNamesUser /\ ~HoldsOwnerKey

C27_OwnerLogin ==
  IsOwnerLogin =>
    /\ last.reported <=> ~StoreOwnerPropertiesFailed
    /\ last.reported => (last.is_owner <=> PolicyNamesUser)
    /\ last.mitigate_calls = IF MitigateExpected THEN 1 ELSE 0
    /\ MitigateExpected =>
         /\ mitigating_
         /\ keygen_jobs = IF last.fork_ok
                          THEN Append(last.pre.jobs,
                                      [user |-> last.current_user,
                                       via |-> "mitigate"])
                          ELSE last.pre.jobs
    /\ ~MitigateExpected =>
         /\ mitigating_ = last.pre.mitigating
         /\ keygen_jobs = last.pre.jobs
    /\ ~last.ok <=> (StoreOwnerPropertiesFailed
                       \/ (MitigateExpected /\ ~last.fork_ok))
    /\ StoreOwnerPropertiesFailed => policy = last.pre.policy

\* The policy names the user, whose key store lacks the private owner key:
\* Mitigate is called, and succeeds.
C27_Witness ==
  /\ IsOwnerLogin
  /\ last.is_owner
  /\ ~HoldsOwnerKey
  /\ last.pre.key = K1
  /\ last.mitigate_calls = 1
  /\ last.ok
  /\ mitigating_

(***************************************************************************)
(* C28: ValidateAndStoreOwnerKey for a key whose private half the user     *)
(* holds, with no mitigation in progress: on an empty key store it         *)
(* installs the key and leaves a policy record built from the empty        *)
(* record (the user as owner and only whitelist entry, or the empty record *)
(* when signing fails); on a populated key store it fails and leaves key   *)
(* and policy record as they were.                                         *)
(***************************************************************************)
IsImport == last.op = "ImportValidateAndStoreGeneratedKey"

UserHoldsPrivateKey ==
  last.key # NoKey /\ last.key \in last.pre.nss[last.username]

\* What StoreOwnerProperties writes over the empty record.
FreshOwnerPolicy ==
  [has_policy_data |-> TRUE, policy_type_ok |-> TRUE, request_token |-> FALSE,
   username |-> last.username, whitelist |-> <<last.username>>,
   allow_new_users |-> "true", other_settings |-> <<>>,
   new_public_key |-> last.key,
   signed_with |-> last.key, serial_missing |-> FALSE,
   new_key_signed_with |-> NoKey]

C29_OwnerKeySetSignals ==
  /\ (IsImport /\ ~last.ok) => last.signals = <<"OwnerKeySet", FALSE>>
  /\ (IsImport /\ last.ok) => key_persist_pending /\ persist_pending
  /\ (last.op = "PersistKey" /\ last.ok) =>
       last.signals = <<"OwnerKeySet", TRUE>>

(***************************************************************************)
(* C30: after a StoreOwnerProperties(user, key) that writes a policy, the  *)
(* policy names user, user is on the whitelist, every user that was on the *)
(* whitelist is still on it and at most one entry was added, the           *)
(* allow-new-users field is set (true when it was unset before the call,   *)
(* as it was otherwise), and no other settings field has changed.          *)
(***************************************************************************)
StoreOwnerPropertiesWrote ==
  /\ last.op = "CheckAndHandleOwnerLogin"
  /\ HoldsOwnerKey
  /\ ~NoChangesNeeded
  /\ last.sign_ok

C30_OwnerSettingsWritten ==
  StoreOwnerPropertiesWrote =>
    LET old == last.pre.policy
    IN /\ policy.username = last.current_user
       /\ \E i \in 1..Len(policy.whitelist) :
            policy.whitelist[i] = last.current_user
       /\ \A i \in 1..Len(old.whitelist) :
            \E j \in 1..Len(policy.whitelist) :
              policy.whitelist[j] = old.whitelist[i]
       /\ Len(policy.whitelist) <= Len(old.whitelist) + 1
       /\ policy.allow_new_users # "unset"
       /\ policy.allow_new_users =
            IF old.allow_new_users = "unset" THEN "true"
            ELSE old.allow_new_users
       /\ policy.other_settings = old.other_settings

(***************************************************************************)
(* C31: StoreOwnerProperties is idempotent.  When the stored policy names  *)
(* the user, lists the user and carries the current public key, the call   *)
(* returns ok and writes nothing; so a StoreOwnerProperties(user, key)     *)
(* that follows a successful one for the same user writes nothing.         *)
(***************************************************************************)
RepeatedOwnerLogin ==
  /\ IsOwnerLogin
  /\ HoldsOwnerKey
  /\ last.prev.any
  /\ last.prev.ok
  /\ last.prev.current_user = last.current_user

C31_StoreOwnerPropertiesIdempotent ==
  /\ (IsOwnerLogin /\ HoldsOwnerKey /\ NoChangesNeeded) =>
       /\ last.ok
       /\ ~last.wrote
       /\ policy = last.pre.policy
  /\ RepeatedOwnerLogin =>
       /\ last.ok
       /\ ~last.wrote
       /\ policy = last.pre.policy

C31_Witness ==
  /\ RepeatedOwnerLogin
  /\ last.pre.policy.whitelist = <<Bob, Alice>>
  /\ ~last.wrote

(***************************************************************************)
(* C32: after Stop the check is no longer scheduled and the flag of the    *)
(* outstanding ping is clear; a check runs only while it is scheduled; and *)
(* the flag is cleared only by a confirmation or by a Stop (Start begins   *)
(* with one).                                                              *)
(***************************************************************************)
C32_StopClearsOutstandingPing ==
  /\ last.op = "Stop" => ~liveness_check_ /\ ~outstanding_liveness_ping_
  /\ IsLivenessCheck => last.pre.scheduled
  /\ (last.op \in {"Start", "Stop", "HandleLivenessConfirmed",
                   "CheckAndSendLivenessPing"}
        /\ last.pre.outstanding /\ ~outstanding_liveness_ping_) =>
       last.op \in {"Start", "Stop", "HandleLivenessConfirmed"}

(***************************************************************************)
(* C33: IsRunning() is true exactly when a check is posted and still       *)
(* valid: false before the first Start, true after Start and after a check *)
(* that posted the next one, false after Stop and after a check that       *)
(* aborted the browser.                                                    *)
(***************************************************************************)
C33_IsRunningIffCheckPosted ==
  /\ IsRunning <=> posted_check
  /\ last.op = "none" => ~IsRunning
  /\ last.op = "Start" => IsRunning
  /\ last.op = "Stop" => ~IsRunning
  /\ IsLivenessCheck => (IsRunning <=> ~last.tick.aborted)

\* A check that aborted the browser: one was posted, none is any more.
C33_Witness ==
  /\ IsLivenessCheck
  /\ last.pre.posted
  /\ last.tick.aborted
  /\ ~posted_check
  /\ ~IsRunning

(***************************************************************************)
(* C34: when the children are cleaned up, every running child that is not  *)
(* marked never-kill is first sent SIGTERM if a session started and        *)
(* SIGKILL otherwise, as the uid the child runs as; SIGABRT goes only to a *)
(* child that is not gone within the timeout, and only after every child   *)
(* got its first signal; a child marked never-kill and a job without a pid *)
(* get no signal.                                                          *)
(***************************************************************************)
IsCleanup == last.op = "CleanupChildren"

FirstSignal == IF last.pre.started THEN SIGTERM ELSE SIGKILL

UidOfChild(i) == IF last.uid_set[i] THEN DesiredUid(i) ELSE DaemonUid

C34_CleanupSignals ==
  IsCleanup =>
    LET K == last.kills
        jobs == 1..Len(child_jobs_)
    IN /\ \A i \in jobs :
            (last.pre.pids[i] \in last.pre.children /\ ~last.never_kill[i]) =>
              \E k \in 1..Len(K) :
                /\ K[k] = [job |-> i, pid |-> last.pre.pids[i],
                           uid |-> UidOfChild(i), sig |-> FirstSignal]
                /\ \A j \in 1..(k - 1) : K[j].job # i
       /\ \A k \in 1..Len(K) :
            /\ K[k].sig \in {FirstSignal, SIGABRT}
            /\ K[k].sig = SIGABRT =>
                 /\ K[k].pid \notin last.gone
                 /\ K[k].uid = UidOfChild(K[k].job)
                 /\ \A j \in 1..Len(K) : K[j].sig # SIGABRT => j < k
                 /\ \E j \in 1..(k - 1) : K[j].job = K[k].job
       /\ \A i \in jobs :
            (last.pre.pids[i] \in last.pre.children /\ ~last.never_kill[i]
               /\ last.pre.pids[i] \notin last.gone) =>
              \E k \in 1..Len(K) : K[k].job = i /\ K[k].sig = SIGABRT
       /\ \A i \in jobs :
            (last.never_kill[i] \/ last.pre.pids[i] = NoPid) =>
              \A k \in 1..Len(K) : K[k].job # i

\* A session started, one child is marked never-kill and the other does not
\* go away in time.
C34_Witness ==
  /\ IsCleanup
  /\ last.pre.started
  /\ \E i \in 1..Len(child_jobs_) :
       last.never_kill[i] /\ last.pre.pids[i] \in last.pre.children
  /\ \E k \in 1..Len(last.kills) : last.kills[k].sig = SIGABRT
  /\ Len(last.kills) = 2

(***************************************************************************)
(* C35: once shutting_down_ is set, a child-exit notification runs no      *)
(* child again and starts no shutdown, whatever the screen lock and the    *)
(* job's stop policy: no process is forked, no pid is recorded, the daemon *)
(* stays as it was and shutting_down_ stays set.                           *)
(***************************************************************************)
ExitWhileShuttingDown ==
  last.op = "HandleChildExit" /\ last.pre.shutting_down

C36_OneKeygenJobInFlight == Len(keygen_jobs) <= 1

(***************************************************************************)
(* C37: when the key of a key generation job is imported, the session      *)
(* table holds a session of the job's user, so no empty entry is added to  *)
(* the table and no slot is read through a null pointer.                   *)
(***************************************************************************)
C37_ImportFindsSession ==
  /\ (last.op = "HandleKeygenExit" /\ last.imported) =>
       /\ last.username \in DOMAIN last.pre.sessions
       /\ ~last.null_read
  /\ \A k \in DOMAIN user_sessions_ : ~user_sessions_[k].null

\* C38: after every failed PopulateFromDiskIfPossible (file too large, short
\* read, or bytes that are not a public key) IsPopulated() is false: the key
\* store holds no key.
C38_FailedLoadLeavesUnpopulated ==
  (last.op = "PopulateFromDiskIfPossible" /\ ~last.ok) => key_ = NoKey

\* C39: in every reachable state the settings GetSettings returns are the
\* decoding of the policy record the store holds now: the cache is never
\* stale.
DecodedSettingsOf(pol) ==
  [set |-> TRUE,
   whitelist |-> IF pol.has_policy_data THEN pol.whitelist ELSE <<>>,
   allow_new_users |-> IF pol.has_policy_data
                       THEN pol.allow_new_users ELSE "unset"]

C39_SettingsCacheNeverStale == GetSettings = DecodedSettingsOf(policy)

====
